---- MODULE Spec2Model ----
\* Model of the chat agent of 4_chainlit_chatbot.py: the per-session stores,
\* the upload handlers and the generate / validate+execute / explain pipeline.
\* Text that the program inspects (code, file names, message contents) is a
\* sequence of one-character strings, so that substring, suffix, strip and
\* lower-casing are computed and not assumed.
EXTENDS Integers, Sequences, FiniteSets, TLC

\* the chat agent: the session stores, the handler slots, and the pandas
\* module object `pd` that every exec call is handed
VARIABLES dataframes, uploaded_documents, active_sources, task, pd

\* the credential of the environment (set or not), and the other front-ends:
\* the session state of the email responder, the school portal and the asset
\* report, and the state of the Reflex chat
VARIABLES ollama_api_key, email, school, asset, chat_state

frontends == <<ollama_api_key, email, school, asset, chat_state>>

chatagent == <<dataframes, uploaded_documents, active_sources, task, pd>>

vars == <<dataframes, uploaded_documents, active_sources, task, pd,
          ollama_api_key, email, school, asset, chat_state>>

\* ------------------------------------------------------------------ bounds
\* longest generated program, in statements
MaxStmts == 2
\* most files in one upload
MaxBatch == 2

\* ------------------------------------------------------------ text helpers
Whitespace == {" ", "\n", "\t"}

UpperChars == <<"A","B","C","D","E","F","G","H","I","J","K","L","M","N","O","P","Q","R","S","T","U","V","W","X","Y","Z">>
LowerChars == <<"a","b","c","d","e","f","g","h","i","j","k","l","m","n","o","p","q","r","s","t","u","v","w","x","y","z">>

\* str.lower(), one character
LowerChar(c) ==
    IF \E i \in 1..Len(UpperChars) : UpperChars[i] = c
    THEN LowerChars[CHOOSE i \in 1..Len(UpperChars) : UpperChars[i] = c]
    ELSE c

\* str.lower()
Lower(s) == [i \in 1..Len(s) |-> LowerChar(s[i])]

\* str.strip(): drop the leading and the trailing whitespace
Strip(s) ==
    LET keep == {i \in 1..Len(s) : s[i] \notin Whitespace}
    IN  IF keep = {} THEN <<>>
        ELSE LET lo == CHOOSE i \in keep : \A j \in keep : i <= j
                 hi == CHOOSE i \in keep : \A j \in keep : j <= i
             IN  SubSeq(s, lo, hi)

\* str.endswith(suffix)
EndsWith(s, suffix) ==
    /\ Len(suffix) <= Len(s)
    /\ SubSeq(s, Len(s) - Len(suffix) + 1, Len(s)) = suffix

\* `pattern in code` on strings: pattern occurs as a contiguous substring
Contains(pattern, s) ==
    \E i \in 1..(Len(s) - Len(pattern) + 1) :
        SubSeq(s, i, i + Len(pattern) - 1) = pattern

\* "\n".join(lines)
RECURSIVE JoinLines(_)
JoinLines(lines) ==
    IF lines = <<>> THEN <<>>
    ELSE IF Len(lines) = 1 THEN lines[1]
    ELSE lines[1] \o <<"\n">> \o JoinLines(Tail(lines))

\* the source lines of a program text (what the compiler of exec sees)
RECURSIVE SplitLines(_)
SplitLines(s) ==
    IF \A i \in 1..Len(s) : s[i] # "\n" THEN <<s>>
    ELSE LET k == CHOOSE i \in 1..Len(s) :
                      s[i] = "\n" /\ \A j \in 1..(i-1) : s[j] # "\n"
         IN  <<SubSeq(s, 1, k - 1)>> \o SplitLines(SubSeq(s, k + 1, Len(s)))

\* ------------------------------------------------- insertion-ordered dicts
\* A Python dict is a sequence of <<key, value>> pairs with distinct keys,
\* in insertion order.
EmptyDict == <<>>

DictKeys(d) == {d[i][1] : i \in 1..Len(d)}

DictHas(d, k) == \E i \in 1..Len(d) : d[i][1] = k

DictGet(d, k) == d[CHOOSE i \in 1..Len(d) : d[i][1] = k][2]

\* faulty variant: a second insert under a name keeps the first table
DictSetKeepFirst(d, k, v) ==
    IF DictHas(d, k) THEN d ELSE Append(d, <<k, v>>)

\* d[k] = v: overwrite in place, or append a new key
DictSet(d, k, v) ==
    IF DictHas(d, k)
    THEN [i \in 1..Len(d) |-> IF d[i][1] = k THEN <<k, v>> ELSE d[i]]
    ELSE Append(d, <<k, v>>)

\* d.update(e)
RECURSIVE DictUpdate(_, _)
DictUpdate(d, e) ==
    IF e = <<>> THEN d
    ELSE DictUpdate(DictSet(d, e[1][1], e[1][2]), Tail(e))

\* d.get(k): <<>> for a missing key, <<v>> otherwise
Lookup(d, k) == IF DictHas(d, k) THEN <<DictGet(d, k)>> ELSE <<>>

IsDict(d) == \A i, j \in 1..Len(d) : d[i][1] = d[j][1] => i = j

\* ---------------------------------------------------------------- denylist
forbidden_patterns == <<
    <<"i","m","p","o","r","t">>,
    <<"o","p","e","n","(">>,
    <<"e","x","e","c","(">>,
    <<"e","v","a","l","(">>,
    <<"_","_">>,
    <<"o","s",".">>,
    <<"s","y","s",".">>,
    <<"s","u","b","p","r","o","c","e","s","s">>,
    <<"s","o","c","k","e","t">> >>

\* faulty variant: the scan looks at the first pattern only
RECURSIVE ScanFirstOnly(_, _)
ScanFirstOnly(code, i) ==
    IF i > 1 THEN 0
    ELSE IF Contains(forbidden_patterns[i], code) THEN i
    ELSE ScanFirstOnly(code, i + 1)

\* faulty variant: the scan ignores case
RECURSIVE ScanIgnoringCase(_, _)
ScanIgnoringCase(code, i) ==
    IF i > Len(forbidden_patterns) THEN 0
    ELSE IF Contains(forbidden_patterns[i], Lower(code)) THEN i
    ELSE ScanIgnoringCase(code, i + 1)

\* faulty variant: the loop does not stop at a match, the last one is kept
RECURSIVE ScanLastMatch(_, _)
ScanLastMatch(code, i) ==
    IF i > Len(forbidden_patterns) THEN 0
    ELSE LET later == ScanLastMatch(code, i + 1)
         IN  IF later # 0 THEN later
             ELSE IF Contains(forbidden_patterns[i], code) THEN i
             ELSE 0

\* for pattern in forbidden_patterns: if pattern in code: raise ...
\* The index of the pattern that raises, 0 when the loop runs to its end.
RECURSIVE ScanDenylist(_, _)
ScanDenylist(code, i) ==
    IF i > Len(forbidden_patterns) THEN 0
    ELSE IF Contains(forbidden_patterns[i], code) THEN i
    ELSE ScanDenylist(code, i + 1)

\* ------------------------------------------------ the statements of exec
\* exec runs Python; the model interprets the statements below, anything
\* else is a SyntaxError. A statement is its source line.
St_result1 == <<"r","e","s","u","l","t","=","1">>
St_div0 == <<"1","/","0">>
St_import == <<"i","m","p","o","r","t"," ","o","s">>
St_Import == <<"I","m","p","o","r","t"," ","o","s">>
St_open == <<"r","e","s","u","l","t","=","o","p","e","n","(","'","f","'",")">>
St_clear == <<"d","a","t","a","f","r","a","m","e","s",".","c","l","e","a","r","(",")">>
St_exit == <<"r","a","i","s","e"," ","S","y","s","t","e","m","E","x","i","t">>
St_x1 == <<"x","=","1">>
St_len == <<"r","e","s","u","l","t","=","l","e","n","(","d","a","t","a","f","r","a","m","e","s",")">>
St_alias == <<"f","=","o","p","e","n">>
St_outer == <<"r","e","s","u","l","t","=","o","l","l","a","m","a","_","c","l","i","e","n","t">>
St_kudos == <<"k","u","d","o","s",".","x","=","1">>
St_import_pandas == <<"i","m","p","o","r","t"," ","p","a","n","d","a","s">>
St_sum == <<"r","e","s","u","l","t","=","d","a","t","a","f","r","a","m","e","s","[","'","a",".","c","s","v","'","]","[","'","a","m","o","u","n","t","'","]",".","s","u","m","(",")">>
St_bump == <<"p","d",".","k","=","g","e","t","a","t","t","r","(","p","d",",","'","k","'",",","0",")","+","1">>
St_readk == <<"r","e","s","u","l","t","=","p","d",".","k">>

Statements == {St_result1, St_div0, St_import, St_Import, St_open,
              St_clear, St_exit, St_x1, St_len, St_alias, St_outer,
              St_kudos, St_import_pandas, St_sum, St_bump, St_readk}

Interpreted == Statements \ {St_Import}

\* the statements the completion service composes programs from
GeneratedStatements == {St_result1, St_div0, St_import, St_open, St_clear,
                        St_exit}

\* a name of local_env: <<>> while unbound, <<v>> once bound to v
Unbound == <<>>

\* the position of a column in a table, 0 when it has no such column
ColumnIndex(df, col) ==
    IF \E i \in 1..Len(df.columns) : df.columns[i] = col
    THEN CHOOSE i \in 1..Len(df.columns) : df.columns[i] = col
    ELSE 0

\* Series.sum() of the k-th column
RECURSIVE SumColumn(_, _)
SumColumn(rows, k) ==
    IF rows = <<>> THEN 0 ELSE rows[1][k] + SumColumn(Tail(rows), k)

\* the names exec resolves outside local_env: globals is {}, which exec
\* fills with __builtins__, so a builtin resolves and a variable of the
\* module does not
Builtins == {"len", "open", "SystemExit", "getattr"}

\* one statement on the namespace local_env = {pd, dataframes, ...}:
\* env.result is local_env.get("result"), env.dataframes the dict object
\* that local_env["dataframes"] refers to, env.exc the exception raised,
\* env.reached the names resolved outside local_env
ExecStatement(line, env) ==
    CASE line = St_result1 -> [env EXCEPT !.result = <<1>>]
      [] line = St_div0    -> [env EXCEPT !.exc = "ZeroDivisionError"]
      [] line = St_import  -> env
      [] line = St_import_pandas -> env
      [] line = St_open    -> [env EXCEPT !.exc = "FileNotFoundError",
                                          !.reached = @ \cup {"open"}]
      [] line = St_clear   -> [env EXCEPT !.dataframes = EmptyDict]
      [] line = St_exit    -> [env EXCEPT !.exc = "SystemExit",
                                          !.reached = @ \cup {"SystemExit"}]
      [] line = St_x1      -> env
      [] line = St_len     -> [env EXCEPT
                                 !.result = <<Len(env.dataframes)>>,
                                 !.reached = @ \cup {"len"}]
      [] line = St_alias   -> [env EXCEPT !.reached = @ \cup {"open"}]
      [] line = St_outer   -> [env EXCEPT !.exc = "NameError"]
      [] line = St_kudos   -> [env EXCEPT !.exc = "NameError"]
      [] line = St_sum     ->
            IF /\ DictHas(env.dataframes, <<"a",".","c","s","v">>)
               /\ ColumnIndex(DictGet(env.dataframes, <<"a",".","c","s","v">>),
                              "amount") # 0
            THEN LET df == DictGet(env.dataframes, <<"a",".","c","s","v">>)
                 IN  [env EXCEPT !.result =
                        <<SumColumn(df.rows, ColumnIndex(df, "amount"))>>]
            ELSE [env EXCEPT !.exc = "KeyError"]
      [] line = St_bump    ->
            [env EXCEPT
               !.pd = DictSet(@, "k", (IF DictHas(@, "k")
                                       THEN DictGet(@, "k") ELSE 0) + 1),
               !.reached = @ \cup {"getattr"}]
      [] line = St_readk   ->
            IF DictHas(env.pd, "k")
            THEN [env EXCEPT !.result = <<DictGet(env.pd, "k")>>]
            ELSE [env EXCEPT !.exc = "AttributeError"]
      [] OTHER             -> [env EXCEPT !.exc = "SyntaxError"]

RECURSIVE ExecLines(_, _)
ExecLines(lines, env) ==
    IF lines = <<>> \/ env.exc # "none" THEN env
    ELSE ExecLines(Tail(lines), ExecStatement(lines[1], env))

\* exec(code, {}, local_env): the text is compiled first (a line that is
\* not a statement is a SyntaxError and nothing runs), then run in order
\* until a statement raises
Exec(code, dfs) ==
    LET lines == IF code = <<>> THEN <<>> ELSE SplitLines(code)
        env0  == [result |-> Unbound, dataframes |-> dfs, exc |-> "none",
                  reached |-> {}, pd |-> pd]
    IN  IF \E i \in 1..Len(lines) : lines[i] \notin Interpreted
        THEN [env0 EXCEPT !.exc = "SyntaxError"]
        ELSE ExecLines(lines, env0)

\* exceptions that `except Exception` does not catch
BaseExceptions == {"SystemExit"}

\* faulty variant: the result is read with local_env.get("result"), so a
\* program that binds no result returns None
execute_code_safely_get(code, dfs) ==
    LET hit == ScanDenylist(code, 1)
    IN  IF hit # 0
        THEN [raised |-> "ValueError", msg |-> "Unsafe code detected",
              pattern |-> forbidden_patterns[hit],
              execd |-> FALSE, value |-> Unbound, dataframes |-> dfs,
              reached |-> {}, pd |-> pd]
        ELSE LET env == Exec(code, dfs)
             IN  IF env.exc # "none"
                 THEN [raised |-> env.exc, msg |-> env.exc, pattern |-> <<>>,
                       execd |-> TRUE, value |-> Unbound,
                       dataframes |-> env.dataframes,
                       reached |-> env.reached, pd |-> env.pd]
                 ELSE [raised |-> "none", msg |-> "", pattern |-> <<>>,
                       execd |-> TRUE, value |-> env.result,
                       dataframes |-> env.dataframes,
                       reached |-> env.reached, pd |-> env.pd]

\* faulty variant: local_env is built with an empty dataframes dict
execute_code_safely_nostore(code, dfs) ==
    LET hit == ScanDenylist(code, 1)
    IN  IF hit # 0
        THEN [raised |-> "ValueError", msg |-> "Unsafe code detected",
              pattern |-> forbidden_patterns[hit],
              execd |-> FALSE, value |-> Unbound, dataframes |-> dfs,
              reached |-> {}, pd |-> pd]
        ELSE LET env == Exec(code, EmptyDict)
             IN  IF env.exc # "none"
                 THEN [raised |-> env.exc, msg |-> env.exc, pattern |-> <<>>,
                       execd |-> TRUE, value |-> Unbound,
                       dataframes |-> dfs, reached |-> env.reached, pd |-> env.pd]
                 ELSE IF env.result = Unbound
                 THEN [raised |-> "ValueError",
                       msg |-> "No result variable produced.",
                       pattern |-> <<>>,
                       execd |-> TRUE, value |-> Unbound,
                       dataframes |-> dfs, reached |-> env.reached, pd |-> env.pd]
                 ELSE [raised |-> "none", msg |-> "", pattern |-> <<>>,
                       execd |-> TRUE, value |-> env.result,
                       dataframes |-> dfs, reached |-> env.reached, pd |-> env.pd]

\* execute_code_safely(code, dataframes): .raised is the exception that
\* leaves the function ("none": it returns .value), .execd whether exec was
\* reached, .dataframes the dict object after the call, .reached the names
\* the code resolved outside local_env
execute_code_safely(code, dfs) ==
    LET hit == ScanDenylist(code, 1)
    IN  IF hit # 0
        THEN [raised |-> "ValueError", msg |-> "Unsafe code detected",
              pattern |-> forbidden_patterns[hit],
              execd |-> FALSE, value |-> Unbound, dataframes |-> dfs,
              reached |-> {}, pd |-> pd]
        ELSE LET env == Exec(code, dfs)
             IN  IF env.exc # "none"
                 THEN [raised |-> env.exc, msg |-> env.exc, pattern |-> <<>>,
                       execd |-> TRUE, value |-> Unbound,
                       dataframes |-> env.dataframes,
                       reached |-> env.reached, pd |-> env.pd]
                 ELSE IF env.result = Unbound
                 THEN [raised |-> "ValueError",
                       msg |-> "No result variable produced.",
                       pattern |-> <<>>,
                       execd |-> TRUE, value |-> Unbound,
                       dataframes |-> env.dataframes,
                       reached |-> env.reached, pd |-> env.pd]
                 ELSE [raised |-> "none", msg |-> "", pattern |-> <<>>,
                       execd |-> TRUE, value |-> env.result,
                       dataframes |-> env.dataframes,
                       reached |-> env.reached, pd |-> env.pd]

\* ------------------------------------------------------------------ tables
T_sales == [columns |-> <<"region", "amount">>,
            rows |-> << <<"north", 10>>, <<"south", 20>> >>]
T_stock == [columns |-> <<"region", "amount">>,
            rows |-> << <<"east", 5>> >>]
T_big == [columns |-> <<"region", "amount", "units">>,
          rows |-> << <<"r1", 1, 1>>, <<"r2", 2, 1>>, <<"r3", 3, 1>>,
                      <<"r4", 4, 1>>, <<"r5", 5, 1>>, <<"r6", 6, 1>> >>]
T_empty == [columns |-> <<"region">>, rows |-> <<>>]

\* what the bytes of an uploaded file hold: 0 decodes as no table and holds
\* no text, k >= 1 decodes as table k and as text k

\* pd.read_csv / pd.read_excel on the file: <<>> when pandas raises
ReadTable(content) ==
    CASE content = 1 -> <<T_sales>>
      [] content = 2 -> <<T_stock>>
      [] content = 3 -> <<T_big>>
      [] content = 4 -> <<T_empty>>
      [] OTHER       -> <<>>

\* the text a document reader returns for the file
ReadText(content) ==
    CASE content = 1 -> "text one"
      [] content = 2 -> "text two"
      [] OTHER       -> ""

N_a_csv == <<"a",".","c","s","v">>
N_b_xls == <<"B",".","X","L","S">>
N_n_txt == <<"n",".","t","x","t">>
N_z_zip == <<"z",".","z","i","p">>

FileNames == {N_a_csv, N_b_xls, N_n_txt, N_z_zip}

\* the files a user uploads
Files ==
    { [name |-> N_a_csv, content |-> 1], [name |-> N_a_csv, content |-> 2],
      [name |-> N_b_xls, content |-> 1], [name |-> N_b_xls, content |-> 0],
      [name |-> N_n_txt, content |-> 1], [name |-> N_z_zip, content |-> 1] }

\* the uploads a user can make: up to MaxBatch files
Batches == UNION {[1..n -> Files] : n \in 1..MaxBatch}

\* faulty variant: every extension is taken for a spreadsheet
IsTabularAny(filename) == TRUE

\* filename.lower().endswith((".csv", ".xlsx", ".xls"))
IsTabular(filename) ==
    \/ EndsWith(Lower(filename), <<".","c","s","v">>)
    \/ EndsWith(Lower(filename), <<".","x","l","s","x">>)
    \/ EndsWith(Lower(filename), <<".","x","l","s">>)

\* the extensions extract_document_text reads
IsDocument(filename) ==
    \/ EndsWith(Lower(filename), <<".","p","d","f">>)
    \/ EndsWith(Lower(filename), <<".","d","o","c","x">>)
    \/ EndsWith(Lower(filename), <<".","t","x","t">>)

\* the two tests, evaluated once for the names of the model
TabularNames == {n \in FileNames : IsTabular(n)}
DocumentNames == {n \in FileNames : IsDocument(n)}

\* parse_tabular_file: .table is <<df>> on return, .raised the exception
parse_tabular_file(content, filename) ==
    IF filename \in TabularNames
    THEN IF ReadTable(content) # <<>>
         THEN [raised |-> "none", msg |-> "", table |-> ReadTable(content)]
         ELSE [raised |-> "ParserError", msg |-> "ParserError", table |-> <<>>]
    ELSE [raised |-> "ValueError", msg |-> "Unsupported file type",
          table |-> <<>>]

\* extract_document_text: None is ""
extract_document_text(content, filename) ==
    IF filename \in DocumentNames THEN ReadText(content) ELSE ""

\* faulty variant: a parsed spreadsheet is also kept as document text
ProcessFileBoth(acc, file) ==
    IF file.name \in TabularNames
    THEN LET p == parse_tabular_file(file.content, file.name)
         IN  IF p.raised = "none"
             THEN [acc EXCEPT
                     !.stored_dfs = DictSet(@, file.name, p.table[1]),
                     !.stored_docs = DictSet(@, file.name,
                                             ReadText(file.content)),
                     !.data_files = Append(@, file.name)]
             ELSE [acc EXCEPT
                     !.errors = Append(@, [kind |-> "Error loading",
                                           name |-> file.name])]
    ELSE LET text == extract_document_text(file.content, file.name)
         IN  IF text # ""
             THEN [acc EXCEPT
                     !.stored_docs = DictSet(@, file.name, text),
                     !.doc_files = Append(@, file.name)]
             ELSE [acc EXCEPT
                     !.errors = Append(@, [kind |-> "Unsupported file type",
                                           name |-> file.name])]

\* process_uploaded_files, the loop body for one file on the accumulator
ProcessFile(acc, file) ==
    IF file.name \in TabularNames
    THEN LET p == parse_tabular_file(file.content, file.name)
         IN  IF p.raised = "none"
             THEN [acc EXCEPT
                     !.stored_dfs = DictSet(@, file.name, p.table[1]),
                     !.data_files = Append(@, file.name)]
             ELSE [acc EXCEPT
                     !.errors = Append(@, [kind |-> "Error loading",
                                           name |-> file.name])]
    ELSE LET text == extract_document_text(file.content, file.name)
         IN  IF text # ""
             THEN [acc EXCEPT
                     !.stored_docs = DictSet(@, file.name, text),
                     !.doc_files = Append(@, file.name)]
             ELSE [acc EXCEPT
                     !.errors = Append(@, [kind |-> "Unsupported file type",
                                           name |-> file.name])]

RECURSIVE ProcessFrom(_, _)
ProcessFrom(acc, files) ==
    IF files = <<>> THEN acc
    ELSE ProcessFrom(ProcessFile(acc, files[1]), Tail(files))

process_uploaded_files(files) ==
    ProcessFrom([stored_dfs |-> EmptyDict, stored_docs |-> EmptyDict,
                 data_files |-> <<>>, doc_files |-> <<>>, errors |-> <<>>],
                files)

\* -------------------------------------------------------------- summarizer
MAX_PREVIEW_ROWS == 5

\* faulty variant: the preview is the whole table
HeadAll(rows, n) == rows

\* df.head(n)
Head_(rows, n) == SubSeq(rows, 1, IF Len(rows) < n THEN Len(rows) ELSE n)

\* summarize_dataframes: one part per table, in dict order; the joined
\* text is the sequence of parts
summarize_dataframes(dfs) ==
    [i \in 1..Len(dfs) |->
        [name    |-> dfs[i][1],
         shape   |-> <<Len(dfs[i][2].rows), Len(dfs[i][2].columns)>>,
         columns |-> dfs[i][2].columns,
         preview |-> Head_(dfs[i][2].rows, MAX_PREVIEW_ROWS)]]

\* -------------------------------------------------------- session context
SourceNames == {"Wikipedia", "Company Docs", "News Articles"}

\* the values of the three switches a settings update can carry
SettingsValues ==
    { [Wikipedia |-> TRUE,  CompanyDocs |-> TRUE,  News |-> TRUE],
      [Wikipedia |-> FALSE, CompanyDocs |-> FALSE, News |-> FALSE] }

\* the dict both init_settings and update_settings store
ActiveSources(settings) ==
    [n \in SourceNames |->
        CASE n = "Wikipedia"    -> settings.Wikipedia
          [] n = "Company Docs" -> settings.CompanyDocs
          [] OTHER              -> settings.News]

\* read_source: the text of sources/<name>.txt, "" when the file is missing
read_source(name) ==
    CASE name = "Wikipedia"     -> "wikipedia text"
      [] name = "News Articles" -> "news text"
      [] OTHER                  -> ""

\* the keys of active_sources, in the order the dict is built
SourceOrder == <<"Wikipedia", "Company Docs", "News Articles">>

\* faulty variant: every source that has text is used, enabled or not
RECURSIVE SourcePartsAll(_, _)
SourcePartsAll(active, i) ==
    IF i > Len(SourceOrder) THEN <<>>
    ELSE (IF read_source(SourceOrder[i]) # ""
          THEN <<[name |-> <<SourceOrder[i]>>,
                  text |-> read_source(SourceOrder[i])]>>
          ELSE <<>>)
         \o SourcePartsAll(active, i + 1)

\* main, else branch: context_parts from the enabled sources that have
\* text, then from the uploaded documents that have text
RECURSIVE SourceParts(_, _)
SourceParts(active, i) ==
    IF i > Len(SourceOrder) THEN <<>>
    ELSE (IF active[SourceOrder[i]] /\ read_source(SourceOrder[i]) # ""
          THEN <<[name |-> <<SourceOrder[i]>>,
                  text |-> read_source(SourceOrder[i])]>>
          ELSE <<>>)
         \o SourceParts(active, i + 1)

RECURSIVE DocumentParts(_)
DocumentParts(docs) ==
    IF docs = <<>> THEN <<>>
    ELSE (IF docs[1][2] # ""
          THEN <<[name |-> docs[1][1], text |-> docs[1][2]]>>
          ELSE <<>>)
         \o DocumentParts(Tail(docs))

BuildContext(active, docs) == SourceParts(active, 1) \o DocumentParts(docs)

\* ------------------------------------------------------ completion service
\* ollama_client.chat either raises or returns a message
ChatFailed == [ok |-> FALSE, content |-> <<>>, text |-> ""]

Programs == UNION {[1..n -> GeneratedStatements] : n \in 0..MaxStmts}

CodeTexts == {JoinLines(p) : p \in Programs}

\* answers to the code-generation request: a program, bare or padded
GenerationResponses ==
    {ChatFailed}
    \cup {[ok |-> TRUE, content |-> c, text |-> ""] : c \in CodeTexts}
    \cup {[ok |-> TRUE, content |-> <<" ">> \o c \o <<"\n">>, text |-> ""] :
            c \in CodeTexts}

\* answers to the explanation and plain-chat requests
TextResponses ==
    {ChatFailed, [ok |-> TRUE, content |-> <<>>, text |-> "an answer"]}

\* ------------------------------------------------------------------- tasks
SessionIds == {"s1"}
TaskIds == {1}

MessageContents == {<<"h","i">>, <<"/","u","p","l","o","a","d">>, <<" ","/","U","p","l","o","a","d","\n">>}

NoSources == [n \in SourceNames |-> FALSE]

\* a handler slot of the event loop that runs no handler
IdleTask ==
    [pc |-> "idle", session |-> "", handler |-> "", mode |-> "",
     question |-> <<>>, files |-> <<>>, idx |-> 0,
     dfs0 |-> EmptyDict, src0 |-> NoSources,
     df_summary |-> <<>>, context |-> <<>>, code |-> <<>>,
     result |-> Unbound,
     err |-> [type |-> "none", msg |-> "", pattern |-> <<>>],
     execd |-> 0, reached |-> {}, prompt |-> <<>>, overlapped |-> FALSE,
     chat_calls |-> 0, log |-> <<>>, outbox |-> <<>>]

\* positions inside a stretch of code that holds the event loop (no await)
SyncPcs == {"summarize", "generate", "execute", "explain", "respond",
            "except", "plain"}

\* the event loop runs one handler at a time between awaits
LoopFree(t) == \A u \in DOMAIN task \ {t} : task[u].pc \notin SyncPcs

\* no handler holds the event loop
LoopIdle == \A u \in DOMAIN task : task[u].pc \notin SyncPcs

Started(s) == s \in DOMAIN dataframes

\* another upload of the session waits at an await when t starts
Overlaps(t, s) ==
    \E u \in DOMAIN task \ {t} :
        task[u].session = s /\ task[u].pc \in {"ask_file", "read"}

Logged(t, step, ok) == Append(task[t].log, [step |-> step, ok |-> ok])

\* --------------------------------------------- the state outside the chat
\* st.session_state of the email responder as its first run leaves it;
\* ran names the button the last run handled, called tells whether that
\* run called client.chat, answer is what the
\* service held ready for it, shown is what the last run displayed with
\* st.error / st.success
EmailStart ==
    [response_history |-> <<>>, current_response |-> <<>>,
     ran |-> "none", called |-> FALSE, answer |-> <<>>, shown |-> <<>>]

\* st.session_state of the school portal; pc is "streaming" while
\* generate_message reads the reply, stream is the reply being read, pos the
\* number of chunks read and full_response the local of that name
SchoolStart ==
    [message_history |-> <<>>, current_message |-> <<>>,
     ran |-> "none", called |-> FALSE, shown |-> <<>>,
     pc |-> "idle", stream |-> <<>>, pos |-> 0, full_response |-> <<>>]

\* st.session_state of the asset report, with ran, called and shown as above
AssetStart ==
    [report_history |-> <<>>, current_report |-> <<>>,
     ran |-> "none", called |-> FALSE, shown |-> <<>>]

\* ChatState: the greeting is the first message (its emoji is left out and
\* its apostrophe is written "'"); request holds the names of the sources
\* whose text went into the last call of the completion service
Greeting ==
    <<"H","e","l","l","o","!"," ","A","s","k"," ","m","e"," ","s","o","m",
      "e","t","h","i","n","g"," ","a","n","d"," ","I","'","l","l"," ","a",
      "n","s","w","e","r"," ","u","s","i","n","g"," ","t","h","e"," ","e",
      "n","a","b","l","e","d"," ","s","o","u","r","c","e","s",".">>

ChatStateStart ==
    [user_input |-> <<>>,
     messages |-> <<[role |-> "assistant", content |-> Greeting]>>,
     citations |-> <<>>,
     wiki_enabled |-> TRUE, docs_enabled |-> TRUE, news_enabled |-> TRUE,
     request |-> <<>>]

\* the pandas module as imported, the credential set, no front-end used yet
InitRest ==
    /\ pd = EmptyDict
    /\ ollama_api_key = TRUE
    /\ email = EmailStart
    /\ school = SchoolStart
    /\ asset = AssetStart
    /\ chat_state = ChatStateStart

\* ------------------------------------------------------- session lifecycle
Init ==
    /\ InitRest
    /\ dataframes = [s \in {} |-> EmptyDict]
    /\ uploaded_documents = [s \in {} |-> EmptyDict]
    /\ active_sources = [s \in {} |-> NoSources]
    /\ task = [t \in TaskIds |-> IdleTask]

\* on_chat_start: the switches start enabled, both stores start empty
init_settings(s) ==
    /\ UNCHANGED <<pd, frontends>>
    /\ ~Started(s)
    /\ LoopIdle
    /\ active_sources' = active_sources @@
         (s :> ActiveSources([Wikipedia |-> TRUE, CompanyDocs |-> TRUE,
                              News |-> TRUE]))
    /\ dataframes' = dataframes @@ (s :> EmptyDict)
    /\ uploaded_documents' = uploaded_documents @@ (s :> EmptyDict)
    /\ UNCHANGED task

\* on_settings_update; it can run while a handler of the session waits at
\* an await, and that handler's record of the toggles it started with (src0)
\* follows it
update_settings(s, settings) ==
    /\ UNCHANGED <<pd, frontends>>
    /\ Started(s)
    /\ LoopIdle
    /\ active_sources' = [active_sources EXCEPT ![s] = ActiveSources(settings)]
    /\ task' = [t \in DOMAIN task |->
                  IF task[t].session = s
                  THEN [task[t] EXCEPT !.src0 = ActiveSources(settings)]
                  ELSE task[t]]
    /\ UNCHANGED <<dataframes, uploaded_documents>>

\* ------------------------------------------------------ the message handler
\* faulty variant: any message is a question when tables are loaded
SelectModeDataFirst(question, dfs) ==
    IF dfs # EmptyDict THEN "data"
    ELSE IF Lower(question) = <<"/","u","p","l","o","a","d">> THEN "upload"
    ELSE "plain"

\* main: the branch a message takes
SelectMode(question, dfs) ==
    IF Lower(question) = <<"/","u","p","l","o","a","d">> THEN "upload"
    ELSE IF dfs # EmptyDict THEN "data"
    ELSE "plain"

\* faulty variant: the explanation is requested before the code is run
OnSuccessExplainFirst(step) ==
    CASE step = "summarize" -> "generate"
      [] step = "generate"  -> "explain"
      [] step = "explain"   -> "execute"
      [] step = "execute"   -> "respond"
      [] OTHER              -> "done"

\* main, the try block: the statement that follows a step that returned
OnSuccess(step) ==
    CASE step = "summarize" -> "generate"
      [] step = "generate"  -> "execute"
      [] step = "execute"   -> "explain"
      [] step = "explain"   -> "respond"
      [] OTHER              -> "done"

\* faulty variant: a failed step is run again
OnFailureRetry(step, exc) == step

\* main, where an exception raised by a step goes: `except Exception`, or
\* out of the handler
OnFailure(step, exc) ==
    IF exc \in BaseExceptions THEN "raised" ELSE "except"

\* a message arrives: main up to the branch on the mode
main_start(t, s, content) ==
    /\ UNCHANGED <<pd, frontends>>
    /\ task[t].pc = "idle"
    /\ Started(s)
    /\ LoopFree(t)
    /\ LET question == Strip(content)
           mode == SelectMode(question, dataframes[s])
       IN  task' = [task EXCEPT ![t] =
             [IdleTask EXCEPT
                !.pc = CASE mode = "upload" -> "ask_file"
                         [] mode = "data"   -> "summarize"
                         [] OTHER           -> "plain",
                !.session = s, !.handler = "main", !.mode = mode,
                !.overlapped = Overlaps(t, s),
                !.question = question,
                !.dfs0 = dataframes[s], !.src0 = active_sources[s]]]
    /\ UNCHANGED <<dataframes, uploaded_documents, active_sources>>

\* faulty variant: the stores are module globals shared by all sessions
main_upload_shared(t, files) ==
    /\ UNCHANGED <<pd, frontends>>
    /\ task[t].pc = "ask_file"
    /\ LoopFree(t)
    /\ LET p == process_uploaded_files(files)
       IN  /\ IF files # <<>>
              THEN /\ dataframes' = [s \in DOMAIN dataframes |->
                        DictUpdate(dataframes[s], p.stored_dfs)]
                   /\ uploaded_documents' = [s \in DOMAIN uploaded_documents |->
                        DictUpdate(uploaded_documents[s], p.stored_docs)]
              ELSE UNCHANGED <<dataframes, uploaded_documents>>
           /\ task' = [task EXCEPT ![t].pc = "done", ![t].files = files]
    /\ UNCHANGED active_sources

\* faulty variant: the update is made on the dict as it was read before the
\* await on AskFileMessage
main_upload_stale(t, files) ==
    /\ UNCHANGED <<pd, frontends>>
    /\ task[t].pc = "ask_file"
    /\ LoopFree(t)
    /\ LET s == task[t].session
           p == process_uploaded_files(files)
       IN  /\ IF files # <<>>
              THEN /\ dataframes' = [dataframes EXCEPT
                        ![s] = DictUpdate(task[t].dfs0, p.stored_dfs)]
                   /\ uploaded_documents' = [uploaded_documents EXCEPT
                        ![s] = DictUpdate(@, p.stored_docs)]
              ELSE UNCHANGED <<dataframes, uploaded_documents>>
           /\ task' = [task EXCEPT ![t].pc = "done", ![t].files = files]
    /\ UNCHANGED active_sources

\* main, the /upload branch once AskFileMessage returns `files` (<<>> when
\* the user sends none)
main_upload(t, files) ==
    /\ UNCHANGED <<pd, frontends>>
    /\ task[t].pc = "ask_file"
    /\ LoopFree(t)
    /\ LET s == task[t].session
           p == process_uploaded_files(files)
           messages ==
               (IF p.data_files # <<>>
                THEN <<[kind |-> "datasets uploaded", names |-> p.data_files]>>
                ELSE <<>>)
               \o (IF p.doc_files # <<>>
                   THEN <<[kind |-> "documents uploaded", names |-> p.doc_files]>>
                   ELSE <<>>)
               \o [i \in 1..Len(p.errors) |->
                     [kind |-> p.errors[i].kind, names |-> <<p.errors[i].name>>]]
       IN  /\ IF files # <<>>
              THEN /\ dataframes' = [dataframes EXCEPT
                        ![s] = DictUpdate(@, p.stored_dfs)]
                   /\ uploaded_documents' = [uploaded_documents EXCEPT
                        ![s] = DictUpdate(@, p.stored_docs)]
              ELSE UNCHANGED <<dataframes, uploaded_documents>>
           /\ task' = [task EXCEPT
                ![t].pc = "done",
                ![t].files = files,
                ![t].outbox =
                    IF files # <<>> /\ messages # <<>>
                    THEN Append(@, [kind |-> "upload feedback",
                                    lines |-> messages])
                    ELSE @]
    /\ UNCHANGED active_sources

\* faulty variant: the tables are cut to the preview rows in place
SummarizeInPlace(t) ==
    /\ UNCHANGED <<pd, frontends>>
    /\ task[t].pc = "summarize"
    /\ task' = [task EXCEPT
         ![t].df_summary = summarize_dataframes(dataframes[task[t].session]),
         ![t].log = Logged(t, "summarize", TRUE),
         ![t].pc = OnSuccess("summarize")]
    /\ dataframes' = [dataframes EXCEPT ![task[t].session] =
          [i \in 1..Len(@) |->
              <<@[i][1], [@[i][2] EXCEPT
                            !.rows = Head_(@, MAX_PREVIEW_ROWS)]>>]]
    /\ UNCHANGED <<uploaded_documents, active_sources>>

\* df_summary = summarize_dataframes(dataframes)
Summarize(t) ==
    /\ UNCHANGED <<pd, frontends>>
    /\ task[t].pc = "summarize"
    /\ task' = [task EXCEPT
         ![t].df_summary = summarize_dataframes(dataframes[task[t].session]),
         ![t].log = Logged(t, "summarize", TRUE),
         ![t].pc = OnSuccess("summarize")]
    /\ UNCHANGED <<dataframes, uploaded_documents, active_sources>>

\* code = generate_analysis_code(question, df_summary)
GenerateWith(t, resp) ==
    /\ UNCHANGED <<pd, frontends>>
    /\ task[t].pc = "generate"
    /\ task' = [task EXCEPT
           ![t].chat_calls = @ + 1,
           ![t].code = IF resp.ok THEN Strip(resp.content) ELSE @,
           ![t].err = IF resp.ok THEN @
                      ELSE [type |-> "ConnectionError",
                            msg |-> "ConnectionError", pattern |-> <<>>],
           ![t].log = Logged(t, "generate", resp.ok),
           ![t].pc = IF resp.ok THEN OnSuccess("generate")
                     ELSE OnFailure("generate", "ConnectionError")]
    /\ UNCHANGED <<dataframes, uploaded_documents, active_sources>>

Generate(t) == \E resp \in GenerationResponses : GenerateWith(t, resp)

\* result = execute_code_safely(code, dataframes): the dict handed to exec
\* is the session's own dict object
Execute(t) ==
    /\ UNCHANGED frontends
    /\ task[t].pc = "execute"
    /\ LET s == task[t].session
           r == execute_code_safely(task[t].code, dataframes[s])
           ok == r.raised = "none"
       IN  /\ dataframes' = [dataframes EXCEPT ![s] = r.dataframes]
           /\ pd' = r.pd
           /\ task' = [task EXCEPT
                ![t].execd = @ + (IF r.execd THEN 1 ELSE 0),
                ![t].reached = r.reached,
                ![t].result = r.value,
                ![t].err = IF ok THEN @
                           ELSE [type |-> r.raised, msg |-> r.msg,
                                 pattern |-> r.pattern],
                ![t].log = Logged(t, "execute", ok),
                ![t].pc = IF ok THEN OnSuccess("execute")
                          ELSE OnFailure("execute", r.raised)]
    /\ UNCHANGED <<uploaded_documents, active_sources>>

\* explanation = ollama_client.chat(...)["message"]["content"]
Explain(t) ==
    /\ UNCHANGED <<pd, frontends>>
    /\ task[t].pc = "explain"
    /\ \E resp \in TextResponses :
         task' = [task EXCEPT
           ![t].prompt = <<[question |-> task[t].question,
                            result |-> task[t].result]>>,
           ![t].chat_calls = @ + 1,
           ![t].err = IF resp.ok THEN @
                      ELSE [type |-> "ConnectionError",
                            msg |-> "ConnectionError", pattern |-> <<>>],
           ![t].log = Logged(t, "explain", resp.ok),
           ![t].pc = IF resp.ok THEN OnSuccess("explain")
                     ELSE OnFailure("explain", "ConnectionError")]
    /\ UNCHANGED <<dataframes, uploaded_documents, active_sources>>

\* await cl.Message(content=explanation).send()
Respond(t) ==
    /\ UNCHANGED <<pd, frontends>>
    /\ task[t].pc = "respond"
    /\ task' = [task EXCEPT
         ![t].outbox = Append(@, [kind |-> "explanation", lines |-> <<>>]),
         ![t].log = Logged(t, "respond", TRUE),
         ![t].pc = OnSuccess("respond")]
    /\ UNCHANGED <<dataframes, uploaded_documents, active_sources>>

\* except Exception as e: send the data analysis error with str(e)
Except(t) ==
    /\ UNCHANGED <<pd, frontends>>
    /\ task[t].pc = "except"
    /\ task' = [task EXCEPT
         ![t].outbox = Append(@, [kind |-> "data analysis error",
                                  lines |-> <<task[t].err>>]),
         ![t].pc = "done"]
    /\ UNCHANGED <<dataframes, uploaded_documents, active_sources>>

\* main, the else branch: context from the enabled sources and the
\* uploaded documents, one chat call, one reply; nothing catches a failure
PlainChat(t) ==
    /\ UNCHANGED <<pd, frontends>>
    /\ task[t].pc = "plain"
    /\ \E resp \in TextResponses :
         task' = [task EXCEPT
           ![t].context = BuildContext(active_sources[task[t].session],
                                       uploaded_documents[task[t].session]),
           ![t].chat_calls = @ + 1,
           ![t].err = IF resp.ok THEN @
                      ELSE [type |-> "ConnectionError",
                            msg |-> "ConnectionError", pattern |-> <<>>],
           ![t].outbox = IF resp.ok
                         THEN Append(@, [kind |-> "reply", lines |-> <<>>])
                         ELSE @,
           ![t].pc = IF resp.ok THEN "done" ELSE "raised"]
    /\ UNCHANGED <<dataframes, uploaded_documents, active_sources>>

\* the handler has returned or raised (an exception that leaves the handler
\* is taken to leave the server running): the slot takes the next event
Return(t) ==
    /\ UNCHANGED <<pd, frontends>>
    /\ task[t].pc \in {"done", "raised"}
    /\ task' = [task EXCEPT ![t] = IdleTask]
    /\ UNCHANGED <<dataframes, uploaded_documents, active_sources>>

\* ------------------------------------------------- the file-upload handler
\* on_file_upload: stored_dfs = cl.user_session.get("dataframes", {}) is the
\* session's dict object itself
on_file_upload(t, s, files) ==
    /\ UNCHANGED <<pd, frontends>>
    /\ task[t].pc = "idle"
    /\ Started(s)
    /\ LoopFree(t)
    /\ task' = [task EXCEPT ![t] =
         [IdleTask EXCEPT
            !.pc = "read", !.session = s, !.handler = "on_file_upload",
            !.overlapped = Overlaps(t, s),
            !.mode = "upload", !.files = files, !.idx = 1,
            !.dfs0 = dataframes[s], !.src0 = active_sources[s]]]
    /\ UNCHANGED <<dataframes, uploaded_documents, active_sources>>

\* on_file_upload, one turn of the loop (content = await file.read(); parse;
\* stored_dfs[file.name] = df), or the lines after the loop
on_file_upload_file(t) ==
    /\ UNCHANGED <<pd, frontends>>
    /\ task[t].pc = "read"
    /\ LoopFree(t)
    /\ LET s == task[t].session
           i == task[t].idx
           files == task[t].files
       IN  IF i > Len(files)
           THEN /\ task' = [task EXCEPT
                     ![t].pc = "done",
                     ![t].outbox = Append(@, [kind |-> "datasets uploaded",
                                              lines |-> <<Len(files)>>])]
                /\ UNCHANGED dataframes
           ELSE LET p == parse_tabular_file(files[i].content, files[i].name)
                IN  IF p.raised = "none"
                    THEN /\ dataframes' = [dataframes EXCEPT
                              ![s] = DictSet(@, files[i].name, p.table[1])]
                         /\ task' = [task EXCEPT ![t].idx = i + 1]
                    ELSE /\ task' = [task EXCEPT
                              ![t].pc = "raised",
                              ![t].err = [type |-> p.raised, msg |-> p.msg,
                                          pattern |-> <<>>]]
                         /\ UNCHANGED dataframes
    /\ UNCHANGED <<uploaded_documents, active_sources>>

\* ----------------------------------------------------------- specification
Next ==
    \/ \E s \in SessionIds : init_settings(s)
    \/ \E s \in SessionIds, v \in SettingsValues : update_settings(s, v)
    \/ \E t \in TaskIds, s \in SessionIds, c \in MessageContents :
         main_start(t, s, c)
    \/ \E t \in TaskIds, files \in Batches \cup {<<>>} : main_upload(t, files)
    \/ \E t \in TaskIds : Summarize(t)
    \/ \E t \in TaskIds : Generate(t)
    \/ \E t \in TaskIds : Execute(t)
    \/ \E t \in TaskIds : Explain(t)
    \/ \E t \in TaskIds : Respond(t)
    \/ \E t \in TaskIds : Except(t)
    \/ \E t \in TaskIds : PlainChat(t)
    \/ \E t \in TaskIds : Return(t)
    \/ \E t \in TaskIds, s \in SessionIds, files \in Batches :
         on_file_upload(t, s, files)
    \/ \E t \in TaskIds : on_file_upload_file(t)

Spec == Init /\ [][Next]_vars

\* ------------------------------------- the pipeline functions on samples
\* The functions of the pipeline called in order on every sample store and
\* on programs that exercise the denylist, the namespace and the result.
Tables == {T_sales, T_stock, T_big, T_empty}

TableNames == {N_a_csv, N_b_xls}

SampleStores ==
    {EmptyDict}
    \cup {<<<<n, df>>>> : n \in TableNames, df \in Tables}
    \cup {<<<<N_a_csv, df1>>, <<N_b_xls, df2>>>> : df1 \in Tables, df2 \in Tables}
    \cup {<<<<N_b_xls, df1>>, <<N_a_csv, df2>>>> : df1 \in Tables, df2 \in Tables}

SamplePrograms ==
    { <<>>, <<St_result1>>, <<St_x1>>, <<St_clear>>, <<St_x1, St_clear>>,
      <<St_import_pandas>>, <<St_Import>>, <<St_kudos>>,
      <<St_open, St_import>>, <<St_import, St_open>>, <<St_result1, St_open>>,
      <<St_sum>>, <<St_result1, St_sum>>, <<St_sum, St_result1>>,
      <<St_clear, St_sum>>, <<St_len>>, <<St_alias, St_result1>>,
      <<St_outer>>, <<St_div0>>, <<St_exit>> }

SampleResponses ==
    {[ok |-> TRUE, content |-> JoinLines(p), text |-> ""] : p \in SamplePrograms}

InitFn ==
    /\ InitRest
    /\ \E d \in SampleStores :
          /\ dataframes = [s \in SessionIds |-> d]
          /\ task = [t \in TaskIds |->
                [IdleTask EXCEPT
                   !.pc = "summarize", !.session = "s1", !.handler = "main",
                   !.mode = "data", !.question = <<"h","i">>, !.dfs0 = d,
                   !.src0 = ActiveSources([Wikipedia |-> TRUE,
                                           CompanyDocs |-> TRUE,
                                           News |-> TRUE])]]
    /\ uploaded_documents = [s \in SessionIds |-> EmptyDict]
    /\ active_sources = [s \in SessionIds |->
          ActiveSources([Wikipedia |-> TRUE, CompanyDocs |-> TRUE,
                         News |-> TRUE])]

NextFn ==
    \/ \E t \in TaskIds : Summarize(t)
    \/ \E t \in TaskIds, resp \in SampleResponses : GenerateWith(t, resp)
    \/ \E t \in TaskIds : Execute(t)
    \/ \E t \in TaskIds : Explain(t)
    \/ \E t \in TaskIds : Respond(t)
    \/ \E t \in TaskIds : Except(t)

SpecFn == InitFn /\ [][NextFn]_vars

\* ------------------------------------------- two uploads into one session
\* Two handler invocations of one started session, each an upload: the
\* /upload branch of main or on_file_upload, interleaved at their awaits.
UploadTaskIds == {1, 2}

UploadBatches ==
    { <<[name |-> N_a_csv, content |-> 1]>>,
      <<[name |-> N_a_csv, content |-> 2]>>,
      <<[name |-> N_b_xls, content |-> 1]>>,
      <<[name |-> N_b_xls, content |-> 0]>>,
      <<[name |-> N_a_csv, content |-> 1], [name |-> N_b_xls, content |-> 2]>>,
      <<[name |-> N_a_csv, content |-> 2], [name |-> N_b_xls, content |-> 0]>>,
      <<[name |-> N_n_txt, content |-> 1], [name |-> N_b_xls, content |-> 1]>> }

InitUploads ==
    /\ InitRest
    /\ \E d \in {EmptyDict, <<<<N_a_csv, T_stock>>>>} :
          dataframes = [s \in SessionIds |-> d]
    /\ uploaded_documents = [s \in SessionIds |-> EmptyDict]
    /\ active_sources = [s \in SessionIds |->
          ActiveSources([Wikipedia |-> TRUE, CompanyDocs |-> TRUE,
                         News |-> TRUE])]
    /\ task = [t \in UploadTaskIds |-> IdleTask]

NextUploads ==
    \/ \E t \in UploadTaskIds, s \in SessionIds :
         main_start(t, s, <<"/","u","p","l","o","a","d">>)
    \/ \E t \in UploadTaskIds, files \in UploadBatches \cup {<<>>} :
         main_upload(t, files)
    \/ \E t \in UploadTaskIds, s \in SessionIds, files \in UploadBatches :
         on_file_upload(t, s, files)
    \/ \E t \in UploadTaskIds : on_file_upload_file(t)

SpecUploads == InitUploads /\ [][NextUploads]_vars

\* ------------------------------------------------------------ two sessions
\* Two chat sessions on the one event loop, each with a handler slot of its
\* own: uploads, questions and plain chat of the two interleave.
TwoSessions == {"s1", "s2"}

SessionOf(t) == IF t = 1 THEN "s1" ELSE "s2"

TwoContents == {<<"h","i">>, <<"/","u","p","l","o","a","d">>}

TwoBatches ==
    { <<[name |-> N_a_csv, content |-> 1]>>,
      <<[name |-> N_b_xls, content |-> 2], [name |-> N_n_txt, content |-> 1]>> }

TwoResponses ==
    { ChatFailed,
      [ok |-> TRUE, content |-> St_result1, text |-> ""],
      [ok |-> TRUE, content |-> St_clear, text |-> ""] }

InitSessions ==
    /\ InitRest
    /\ dataframes = [s \in {} |-> EmptyDict]
    /\ uploaded_documents = [s \in {} |-> EmptyDict]
    /\ active_sources = [s \in {} |-> NoSources]
    /\ task = [t \in UploadTaskIds |-> IdleTask]

NextSessions ==
    \/ \E s \in TwoSessions : init_settings(s)
    \/ \E t \in UploadTaskIds, c \in TwoContents :
         main_start(t, SessionOf(t), c)
    \/ \E t \in UploadTaskIds, files \in TwoBatches \cup {<<>>} :
         main_upload(t, files)
    \/ \E t \in UploadTaskIds : Summarize(t)
    \/ \E t \in UploadTaskIds, resp \in TwoResponses : GenerateWith(t, resp)
    \/ \E t \in UploadTaskIds : Execute(t)
    \/ \E t \in UploadTaskIds : Explain(t)
    \/ \E t \in UploadTaskIds : Respond(t)
    \/ \E t \in UploadTaskIds : Except(t)
    \/ \E t \in UploadTaskIds : PlainChat(t)
    \/ \E t \in UploadTaskIds : Return(t)
    \/ \E t \in UploadTaskIds, files \in TwoBatches :
         on_file_upload(t, SessionOf(t), files)
    \/ \E t \in UploadTaskIds : on_file_upload_file(t)

SpecSessions == InitSessions /\ [][NextSessions]_vars

\* ------------------------------------------- two messages in one session
\* Two questions put to one session that holds a table, each handled by the
\* data analysis pipeline, one after the other.
MessagePrograms ==
    { <<St_result1>>, <<St_readk>>, <<St_bump, St_readk>>, <<St_bump>> }

MessageResponses ==
    {ChatFailed}
    \cup {[ok |-> TRUE, content |-> JoinLines(q), text |-> ""] :
            q \in MessagePrograms}

InitMessages ==
    /\ InitRest
    /\ dataframes = [s \in SessionIds |-> <<<<N_a_csv, T_sales>>>>]
    /\ uploaded_documents = [s \in SessionIds |-> EmptyDict]
    /\ active_sources = [s \in SessionIds |->
          ActiveSources([Wikipedia |-> TRUE, CompanyDocs |-> TRUE,
                         News |-> TRUE])]
    /\ task = [t \in UploadTaskIds |-> IdleTask]

NextMessages ==
    \/ \E t \in UploadTaskIds, s \in SessionIds :
         main_start(t, s, <<"h","i">>)
    \/ \E t \in UploadTaskIds : Summarize(t)
    \/ \E t \in UploadTaskIds, resp \in MessageResponses :
         GenerateWith(t, resp)
    \/ \E t \in UploadTaskIds : Execute(t)
    \/ \E t \in UploadTaskIds : Explain(t)
    \/ \E t \in UploadTaskIds : Respond(t)
    \/ \E t \in UploadTaskIds : Except(t)

SpecMessages == InitMessages /\ [][NextMessages]_vars

\* ------------------------------------------------ the completion service
\* What the service does with one request: `fragments` are the chunks of its
\* answer in order, `fails_at` is the number of chunks delivered before the
\* connection breaks (0: it breaks before the first chunk) and -1 when the
\* answer is delivered whole; `msg` is the text of the exception then raised.
\* A chunk is a dict or another object; `content` is <<text>>, or <<>> when
\* the chunk has no "content"; has_message tells whether it has "message".
TextChunk(text) == [is_dict |-> TRUE, has_message |-> TRUE, content |-> <<text>>]

ObjectChunk(text) ==
    [is_dict |-> FALSE, has_message |-> TRUE, content |-> <<text>>]

DoneChunk == [is_dict |-> TRUE, has_message |-> FALSE, content |-> <<>>]

EmptyChunk == [is_dict |-> TRUE, has_message |-> TRUE, content |-> <<>>]

Msg_refused == <<"C","o","n","n","e","c","t","i","o","n"," ","r","e","f","u","s","e","d">>
Msg_401 == <<"4","0","1"," ","U","n","a","u","t","h","o","r","i","z","e","d">>
Msg_404 == <<"m","o","d","e","l"," ","n","o","t"," ","f","o","u","n","d">>
Msg_timeout == <<"t","i","m","e","d"," ","o","u","t">>
Msg_generator ==
    <<"'","g","e","n","e","r","a","t","o","r","'"," ","o","b","j","e","c",
      "t"," ","i","s"," ","n","o","t"," ","s","u","b","s","c","r","i","p",
      "t","a","b","l","e">>

\* client.chat(..., stream=True): a generator; nothing is requested before
\* the first chunk is asked for
ChatStream(answer) == [kind |-> "generator", answer |-> answer]

\* the text of an answer delivered whole
RECURSIVE WholeText(_)
WholeText(fragments) ==
    IF fragments = <<>> THEN <<>>
    ELSE (IF fragments[1].content = <<>> THEN <<>>
          ELSE fragments[1].content[1])
         \o WholeText(Tail(fragments))

\* client.chat(..., stream=False): the request is made; the whole message
\* or the exception
ChatWhole(answer) ==
    IF answer.fails_at >= 0
    THEN [kind |-> "raised", msg |-> answer.msg]
    ELSE [kind |-> "message", content |-> WholeText(answer.fragments)]

\* response["message"]["content"]: a generator cannot be subscripted
GetContent(response) ==
    IF response.kind = "generator"
    THEN [raised |-> TRUE, msg |-> Msg_generator, content |-> <<>>]
    ELSE [raised |-> FALSE, msg |-> <<>>, content |-> response.content]

Err_no_key ==
    <<"E","r","r","o","r",":"," ","O","L","L","A","M","A","_","A","P","I",
      "_","K","E","Y"," ","n","o","t"," ","c","o","n","f","i","g","u","r",
      "e","d","."," ","P","l","e","a","s","e"," ","s","e","t"," ","i","t",
      " ","i","n"," ","y","o","u","r"," ",".","e","n","v"," ","f","i","l",
      "e",".">>
Err_refused ==
    <<"E","r","r","o","r",":"," ","C","o","n","n","e","c","t","i","o","n",
      " ","r","e","f","u","s","e","d","."," ","C","h","e","c","k"," ","i",
      "n","t","e","r","n","e","t"," ","c","o","n","n","e","c","t","i","v",
      "i","t","y"," ","a","n","d"," ","o","l","l","a","m","a","_","u","r",
      "l",".">>
Err_auth ==
    <<"E","r","r","o","r",":"," ","A","u","t","h","e","n","t","i","c","a",
      "t","i","o","n"," ","f","a","i","l","e","d","."," ","C","h","e","c",
      "k"," ","O","L","L","A","M","A","_","A","P","I","_","K","E","Y",".">>
Err_model ==
    <<"E","r","r","o","r",":"," ","M","o","d","e","l"," ","'","g","p","t",
      "-","o","s","s",":","1","2","0","b","-","c","l","o","u","d","'"," ",
      "n","o","t"," ","f","o","u","n","d",".">>
Err_response == <<"E","r","r","o","r"," ","g","e","n","e","r","a","t","i","n","g"," ","r","e","s","p","o","n","s","e",":"," ">>
Err_message == <<"E","r","r","o","r"," ","g","e","n","e","r","a","t","i","n","g"," ","m","e","s","s","a","g","e",":"," ">>

\* the except block of generate_response / generate_message
ExceptText(prefix, msg) ==
    IF Contains(<<"C","o","n","n","e","c","t","i","o","n"," ","r","e","f","u","s","e","d">>, msg) \/ Contains(<<"E","C","O","N","N","R","E","F","U","S","E","D">>, msg) THEN Err_refused
    ELSE IF Contains(<<"4","0","1">>, msg) \/ Contains(<<"U","n","a","u","t","h","o","r","i","z","e","d">>, msg)
    THEN Err_auth
    ELSE IF Contains(<<"4","0","4">>, msg) \/ Contains(<<"n","o","t"," ","f","o","u","n","d">>, msg)
    THEN Err_model
    ELSE prefix \o msg

\* ------------------------------------------------------ the email responder
\* generate_response: .text is the string returned, .called tells whether
\* client.chat was called
generate_response(customer_email_body, answer) ==
    IF ~ollama_api_key
    THEN [text |-> Err_no_key, called |-> FALSE]
    ELSE LET response == ChatStream(answer)
             got == GetContent(response)
         IN  IF got.raised
             THEN [text |-> ExceptText(Err_response, got.msg), called |-> TRUE]
             ELSE [text |-> Strip(got.content), called |-> TRUE]

\* send_email_simulation
send_email_simulation(to_email, subject, body) ==
    IF to_email = <<>> \/ subject = <<>> \/ body = <<>>
    THEN [success |-> FALSE, message |-> "Missing required email fields."]
    ELSE [success |-> TRUE, message |-> "[SIMULATION] Email sent successfully"]

\* save_to_history: the entry appended (its timestamp is left out)
HistoryEntry(customer_name, customer_email, customer_body, generated_response) ==
    [customer_name |-> customer_name, customer_email |-> customer_email,
     customer_body |-> customer_body,
     generated_response |-> generated_response]

\* longest history kept
MaxHistory == 2

\* what the user types into the widgets
CustomerNames == {<<>>, <<"A","l">>}

CustomerEmails == {<<>>, <<"a","@","b">>}

CustomerBodies == {<<>>, <<" ">>, <<"h","i">>}

\* the customer's email still in its box when a response is saved or sent
PastedBodies == {<<"h","i">>}

EditedTexts == {<<>>, <<"o","k">>}

\* what the service would answer
Answers ==
    { [fragments |-> <<TextChunk(<<" ","h","i">>), TextChunk(<<"!"," ">>),
                      DoneChunk>>,
       fails_at |-> -1, msg |-> <<>>],
      [fragments |-> <<TextChunk(<<"h","i">>), EmptyChunk>>,
       fails_at |-> -1, msg |-> <<>>],
      [fragments |-> <<ObjectChunk(<<"h","i">>), ObjectChunk(<<"!">>)>>,
       fails_at |-> -1, msg |-> <<>>],
      [fragments |-> <<TextChunk(<<"h","i">>), TextChunk(<<"!">>)>>,
       fails_at |-> 1, msg |-> Msg_timeout],
      [fragments |-> <<TextChunk(<<"h","i">>)>>,
       fails_at |-> 0, msg |-> Msg_refused],
      [fragments |-> <<TextChunk(<<"h","i">>)>>,
       fails_at |-> 0, msg |-> Msg_401],
      [fragments |-> <<TextChunk(<<"h","i">>)>>,
       fails_at |-> 0, msg |-> Msg_404] }

\* "Generate Response"
EmailGenerate(customer_email_body, answer) ==
    /\ UNCHANGED <<chatagent, ollama_api_key, school, asset, chat_state>>
    /\ IF Strip(customer_email_body) = <<>>
       THEN email' = [email EXCEPT
                        !.shown = <<"Please enter the customer's email first.">>,
                        !.ran = "generate", !.called = FALSE, !.answer = <<>>]
       ELSE LET g == generate_response(customer_email_body, answer)
            IN  email' = [email EXCEPT
                            !.current_response = g.text,
                            !.ran = "generate", !.called = g.called,
                            !.answer = <<answer>>,
                            !.shown = <<>>]

\* "Save to History"; the button is drawn only while current_response is set
EmailSave(customer_name, customer_email, customer_email_body, edited_response) ==
    /\ UNCHANGED <<chatagent, ollama_api_key, school, asset, chat_state>>
    /\ email.current_response # <<>>
    /\ Len(email.response_history) < MaxHistory
    /\ IF customer_name # <<>> /\ customer_email # <<>>
       THEN email' = [email EXCEPT
                        !.response_history =
                            Append(@, HistoryEntry(customer_name,
                                                   customer_email,
                                                   customer_email_body,
                                                   edited_response)),
                        !.ran = "generate", !.ran = "save", !.called = FALSE, !.answer = <<>>, !.answer = <<>>,
                        !.shown = <<"Response saved to history!">>]
       ELSE email' = [email EXCEPT
                        !.ran = "generate", !.ran = "save", !.called = FALSE, !.answer = <<>>, !.answer = <<>>,
                        !.shown = <<"Please enter customer name and email.">>]

\* faulty variant: the entry is saved and the response cleared before the
\* outcome of the simulated send is looked at
EmailSendUnchecked(customer_name, customer_email, customer_email_body, edited_response) ==
    /\ UNCHANGED <<chatagent, ollama_api_key, school, asset, chat_state>>
    /\ email.current_response # <<>>
    /\ Len(email.response_history) < MaxHistory
    /\ IF customer_email = <<>>
       THEN email' = [email EXCEPT
                        !.ran = "generate", !.ran = "save", !.ran = "send", !.called = FALSE, !.answer = <<>>, !.answer = <<>>, !.answer = <<>>,
                        !.shown = <<"Please enter customer email address.">>]
       ELSE email' = [email EXCEPT
                        !.response_history =
                            Append(@, HistoryEntry(customer_name,
                                                   customer_email,
                                                   customer_email_body,
                                                   edited_response)),
                        !.current_response = <<>>,
                        !.ran = "generate", !.ran = "save", !.ran = "send", !.called = FALSE, !.answer = <<>>, !.answer = <<>>, !.answer = <<>>,
                        !.shown = <<>>]

\* "Send Response"
EmailSend(customer_name, customer_email, customer_email_body, edited_response) ==
    /\ UNCHANGED <<chatagent, ollama_api_key, school, asset, chat_state>>
    /\ email.current_response # <<>>
    /\ Len(email.response_history) < MaxHistory
    /\ IF customer_email = <<>>
       THEN email' = [email EXCEPT
                        !.ran = "generate", !.ran = "save", !.ran = "send", !.ran = "send", !.called = FALSE, !.answer = <<>>, !.answer = <<>>, !.answer = <<>>, !.answer = <<>>,
                        !.shown = <<"Please enter customer email address.">>]
       ELSE LET sent == send_email_simulation(
                            customer_email,
                            <<"R","e",":"," ","Y","o","u","r"," ","E","m","a","i","l"," ","-"," ">> \o customer_name,
                            edited_response)
            IN  IF sent.success
                THEN email' = [email EXCEPT
                        !.response_history =
                            Append(@, HistoryEntry(customer_name,
                                                   customer_email,
                                                   customer_email_body,
                                                   edited_response)),
                        !.current_response = <<>>,
                        !.ran = "generate", !.ran = "save", !.ran = "send", !.ran = "send", !.called = FALSE, !.answer = <<>>, !.answer = <<>>, !.answer = <<>>, !.answer = <<>>,
                        !.shown = <<>>]
                ELSE email' = [email EXCEPT
                        !.ran = "generate", !.ran = "save", !.ran = "send", !.ran = "send", !.called = FALSE, !.answer = <<>>, !.answer = <<>>, !.answer = <<>>, !.answer = <<>>,
                        !.shown = <<sent.message>>]

\* "Clear"
EmailClear ==
    /\ UNCHANGED <<chatagent, ollama_api_key, school, asset, chat_state>>
    /\ email.current_response # <<>>
    /\ email' = [email EXCEPT !.current_response = <<>>, !.ran = "generate", !.ran = "save", !.ran = "send", !.ran = "send", !.ran = "clear", !.called = FALSE, !.answer = <<>>, !.answer = <<>>, !.answer = <<>>, !.answer = <<>>, !.answer = <<>>,
                              !.shown = <<>>]

\* faulty variant: the index counts from the end of the list
PopFromEnd(list, i) ==
    [k \in 1..(Len(list) - 1) |->
        IF k < Len(list) - i THEN list[k] ELSE list[k + 1]]

\* list.pop(i) for the 0-based index i
Pop(list, i) ==
    [k \in 1..(Len(list) - 1) |-> IF k <= i THEN list[k] ELSE list[k + 1]]

\* "Delete" next to the entry enumerate() numbered idx
EmailDelete(idx) ==
    /\ UNCHANGED <<chatagent, ollama_api_key, school, asset, chat_state>>
    /\ idx \in 0..(Len(email.response_history) - 1)
    /\ email' = [email EXCEPT !.response_history = Pop(@, idx),
                              !.ran = "generate", !.ran = "save", !.ran = "send", !.ran = "send", !.ran = "delete", !.called = FALSE, !.answer = <<>>, !.answer = <<>>, !.answer = <<>>, !.answer = <<>>, !.answer = <<>>, !.shown = <<>>]

\* the email responder used on its own, with or without the credential
ChatAgentUnused ==
    /\ pd = EmptyDict
    /\ dataframes = [s \in {} |-> EmptyDict]
    /\ uploaded_documents = [s \in {} |-> EmptyDict]
    /\ active_sources = [s \in {} |-> NoSources]
    /\ task = [t \in TaskIds |-> IdleTask]

InitEmail ==
    /\ ChatAgentUnused
    /\ ollama_api_key \in BOOLEAN
    /\ email = EmailStart
    /\ school = SchoolStart
    /\ asset = AssetStart
    /\ chat_state = ChatStateStart

NextEmail ==
    \/ \E b \in CustomerBodies, a \in Answers : EmailGenerate(b, a)
    \/ \E n \in CustomerNames, e \in CustomerEmails, b \in PastedBodies,
          x \in EditedTexts : EmailSave(n, e, b, x)
    \/ \E n \in CustomerNames, e \in CustomerEmails, b \in PastedBodies,
          x \in EditedTexts : EmailSend(n, e, b, x)
    \/ EmailClear
    \/ \E idx \in 0..(MaxHistory - 1) : EmailDelete(idx)

SpecEmail == InitEmail /\ [][NextEmail]_vars

\* --------------------------------------------------------- the school portal
\* the students of the data file; no row has the id 0 but the test is there
StudentIds == {0, 1, 2}

\* save_to_message_history: the entry appended; the name, class, type,
\* recipient and rate shown with it are read from the student's row and
\* the timestamp is left out
MessageEntry(student_id, generated_message) ==
    [student_id |-> student_id, message |-> generated_message]

\* "Generate Message" up to the first read of the reply
SchoolGenerate(student_id, answer) ==
    /\ UNCHANGED <<chatagent, ollama_api_key, email, asset, chat_state>>
    /\ school.pc = "idle"
    /\ IF student_id = 0
       THEN school' = [school EXCEPT
                         !.ran = "generate", !.called = FALSE,
                         !.stream = <<>>, !.pos = 0, !.full_response = <<>>,
                         !.shown = <<"Please select a student.">>]
       ELSE IF ~ollama_api_key
       THEN school' = [school EXCEPT
                         !.ran = "generate", !.called = FALSE,
                         !.stream = <<>>, !.pos = 0, !.full_response = <<>>,
                         !.shown = <<>>,
                         !.current_message = Err_no_key]
       ELSE school' = [school EXCEPT
                         !.ran = "generate", !.called = TRUE,
                         !.shown = <<>>,
                         !.pc = "streaming",
                         !.stream = <<ChatStream(answer).answer>>,
                         !.pos = 0,
                         !.full_response = <<>>]

\* the body of the loop over the reply
Accumulate(full_response, chunk) ==
    IF chunk.is_dict /\ chunk.has_message
    THEN full_response \o
         (IF chunk.content = <<>> THEN <<>> ELSE chunk.content[1])
    ELSE full_response

\* one turn of `for chunk in response`
SchoolChunk ==
    /\ UNCHANGED <<chatagent, ollama_api_key, email, asset, chat_state>>
    /\ school.pc = "streaming"
    /\ school.pos < Len(school.stream[1].fragments)
    /\ school.stream[1].fails_at # school.pos
    /\ school' = [school EXCEPT
                    !.full_response =
                        Accumulate(@, school.stream[1].fragments[school.pos + 1]),
                    !.pos = @ + 1]

\* the reply breaks: the except block, then the button stores the text
SchoolStreamFails ==
    /\ UNCHANGED <<chatagent, ollama_api_key, email, asset, chat_state>>
    /\ school.pc = "streaming"
    /\ school.stream[1].fails_at = school.pos
    /\ school' = [school EXCEPT
                    !.pc = "idle",
                    !.current_message =
                        ExceptText(Err_message, school.stream[1].msg)]

\* the reply is exhausted: the text is returned trimmed and stored
SchoolStreamEnds ==
    /\ UNCHANGED <<chatagent, ollama_api_key, email, asset, chat_state>>
    /\ school.pc = "streaming"
    /\ school.pos = Len(school.stream[1].fragments)
    /\ school.stream[1].fails_at # school.pos
    /\ school' = [school EXCEPT
                    !.pc = "idle",
                    !.current_message = Strip(school.full_response)]

\* "Save to History"; drawn only while current_message is set
SchoolSave(student_id, edited_message) ==
    /\ UNCHANGED <<chatagent, ollama_api_key, email, asset, chat_state>>
    /\ school.pc = "idle"
    /\ school.current_message # <<>>
    /\ Len(school.message_history) < MaxHistory
    /\ school' = [school EXCEPT
                    !.message_history =
                        Append(@, MessageEntry(student_id, edited_message)),
                    !.ran = "save", !.called = FALSE,
                    !.stream = <<>>, !.pos = 0, !.full_response = <<>>,
                    !.shown = <<"Message saved to history!">>]

\* "Save & Mark Sent"
SchoolSaveSent(student_id, edited_message) ==
    /\ UNCHANGED <<chatagent, ollama_api_key, email, asset, chat_state>>
    /\ school.pc = "idle"
    /\ school.current_message # <<>>
    /\ Len(school.message_history) < MaxHistory
    /\ school' = [school EXCEPT
                    !.message_history =
                        Append(@, MessageEntry(student_id, edited_message)),
                    !.current_message = <<>>,
                    !.ran = "sent", !.called = FALSE,
                    !.stream = <<>>, !.pos = 0, !.full_response = <<>>,
                    !.shown = <<>>]

\* "Clear"
SchoolClear ==
    /\ UNCHANGED <<chatagent, ollama_api_key, email, asset, chat_state>>
    /\ school.pc = "idle"
    /\ school.current_message # <<>>
    /\ school' = [school EXCEPT
                    !.current_message = <<>>,
                    !.ran = "clear", !.called = FALSE,
                    !.stream = <<>>, !.pos = 0, !.full_response = <<>>,
                    !.shown = <<>>]

\* "Delete" next to the entry enumerate() numbered idx
SchoolDelete(idx) ==
    /\ UNCHANGED <<chatagent, ollama_api_key, email, asset, chat_state>>
    /\ school.pc = "idle"
    /\ idx \in 0..(Len(school.message_history) - 1)
    /\ school' = [school EXCEPT
                    !.message_history = Pop(@, idx),
                    !.ran = "delete", !.called = FALSE,
                    !.stream = <<>>, !.pos = 0, !.full_response = <<>>,
                    !.shown = <<>>]

\* the school portal used on its own, with or without the credential
InitSchool == InitEmail

NextSchool ==
    \/ \E i \in StudentIds, a \in Answers : SchoolGenerate(i, a)
    \/ SchoolChunk
    \/ SchoolStreamFails
    \/ SchoolStreamEnds
    \/ \E i \in StudentIds \ {0}, x \in EditedTexts : SchoolSave(i, x)
    \/ \E i \in StudentIds \ {0}, x \in EditedTexts : SchoolSaveSent(i, x)
    \/ SchoolClear
    \/ \E idx \in 0..(MaxHistory - 1) : SchoolDelete(idx)

SpecSchool == InitSchool /\ [][NextSchool]_vars

\* --------------------------------------------------------- the asset report
\* the dash of the source text is written "-"
Err_credentials == <<"E","r","r","o","r"," ","-"," ","m","i","s","s","i","n","g"," ","O","l","l","a","m","a"," ","c","r","e","d","e","n","t","i","a","l","s",".">>

Err_report == <<"E","r","r","o","r"," ","g","e","n","e","r","a","t","i","n","g"," ","r","e","p","o","r","t",":"," ">>

\* `for chunk in response` over the first n chunks
RECURSIVE ReadChunks(_, _)
ReadChunks(fragments, n) ==
    IF n = 0 THEN <<>>
    ELSE Accumulate(ReadChunks(fragments, n - 1), fragments[n])

\* "Generate Report"
AssetGenerate(answer) ==
    /\ UNCHANGED <<chatagent, ollama_api_key, email, school, chat_state>>
    /\ IF ~ollama_api_key
       THEN asset' = [asset EXCEPT
                        !.ran = "generate", !.called = FALSE,
                        !.shown = <<"OLLAMA_API_KEY not set">>,
                        !.current_report = Err_credentials]
       ELSE IF answer.fails_at >= 0
       THEN asset' = [asset EXCEPT
                        !.ran = "generate", !.called = TRUE,
                        !.shown = <<"Error while contacting Ollama">>,
                        !.current_report = Err_report \o answer.msg]
       ELSE asset' = [asset EXCEPT
                        !.ran = "generate", !.called = TRUE,
                        !.shown = <<>>,
                        !.current_report =
                            Strip(ReadChunks(answer.fragments,
                                             Len(answer.fragments)))]

\* ------------------------------------------------------------ the Reflex chat
\* position of the first ch in text, 0 when there is none
FirstIndex(ch, text) ==
    IF \E k \in 1..Len(text) : text[k] = ch
    THEN CHOOSE k \in 1..Len(text) :
            /\ text[k] = ch
            /\ \A m \in 1..(k - 1) : text[m] # ch
    ELSE 0

\* re.findall(r"\[(.*?)\]", text) on a text of one line
RECURSIVE Bracketed(_)
Bracketed(text) ==
    LET i == FirstIndex("[", text)
        rest == SubSeq(text, i + 1, Len(text))
        j == FirstIndex("]", rest)
    IN  IF i = 0 \/ j = 0 THEN <<>>
        ELSE <<SubSeq(rest, 1, j - 1)>>
             \o Bracketed(SubSeq(rest, j + 1, Len(rest)))

\* item.split(",")
RECURSIVE SplitComma(_)
SplitComma(item) ==
    LET i == FirstIndex(",", item)
    IN  IF i = 0 THEN <<item>>
        ELSE <<SubSeq(item, 1, i - 1)>>
             \o SplitComma(SubSeq(item, i + 1, Len(item)))

\* [x.strip() for x in pieces if x.strip()]
RECURSIVE StripNonEmpty(_)
StripNonEmpty(pieces) ==
    IF pieces = <<>> THEN <<>>
    ELSE (IF Strip(pieces[1]) = <<>> THEN <<>> ELSE <<Strip(pieces[1])>>)
         \o StripNonEmpty(Tail(pieces))

\* the labels of every bracket in order
RECURSIVE Labels(_)
Labels(raw) ==
    IF raw = <<>> THEN <<>>
    ELSE StripNonEmpty(SplitComma(raw[1])) \o Labels(Tail(raw))

\* list(dict.fromkeys(labels)): the first occurrence of each label
RECURSIVE FromKeys(_)
FromKeys(labels) ==
    IF labels = <<>> THEN <<>>
    ELSE LET front == FromKeys(SubSeq(labels, 1, Len(labels) - 1))
             last == labels[Len(labels)]
         IN  IF \E k \in 1..Len(front) : front[k] = last
             THEN front ELSE Append(front, last)

extract_citations(text) == FromKeys(Labels(Bracketed(text)))

\* the exclamation mark stands for the emoji of the source text
Err_reply == <<"!"," ","E","r","r","o","r"," ","g","e","n","e","r","a","t","i","n","g"," ","r","e","s","p","o","n","s","e",":"," ">>

\* call_ollama: the reply trimmed, or the error text
call_ollama(answer) ==
    LET response == ChatWhole(answer)
    IN  IF response.kind = "raised"
        THEN Err_reply \o response.msg
        ELSE LET got == GetContent(response)
             IN  IF got.raised THEN Err_reply \o got.msg
                 ELSE Strip(got.content)

\* the list `active` of send_message; every source file holds text
ActiveList(state) ==
    (IF state.wiki_enabled THEN <<"Wikipedia">> ELSE <<>>)
    \o (IF state.docs_enabled THEN <<"Company Docs">> ELSE <<>>)
    \o (IF state.news_enabled THEN <<"News Articles">> ELSE <<>>)

\* most exchanges of one conversation
MaxExchanges == 2

\* what the user types
UserInputs == {<<>>, <<" ">>, <<" ","q"," ">>}

\* what the service answers to the chat
ChatAnswers ==
    { [fragments |-> <<TextChunk(<<" ","o","k"," ","[","W","i","k","i","p","e","d","i","a",","," ","N","e","w","s","]"," ","["," ",",","W","i","k","i","p","e","d","i","a","]","[","x"," ">>)>>,
       fails_at |-> -1, msg |-> <<>>],
      [fragments |-> <<TextChunk(<<>>)>>,
       fails_at |-> -1, msg |-> <<>>],
      [fragments |-> <<TextChunk(<<"h","i">>)>>,
       fails_at |-> 0, msg |-> Msg_timeout] }

\* the setters Reflex generates for the fields bound in the page
set_user_input(value) ==
    /\ UNCHANGED <<chatagent, ollama_api_key, email, school, asset>>
    /\ chat_state' = [chat_state EXCEPT !.user_input = value]

set_wiki_enabled(value) ==
    /\ UNCHANGED <<chatagent, ollama_api_key, email, school, asset>>
    /\ chat_state' = [chat_state EXCEPT !.wiki_enabled = value]

set_docs_enabled(value) ==
    /\ UNCHANGED <<chatagent, ollama_api_key, email, school, asset>>
    /\ chat_state' = [chat_state EXCEPT !.docs_enabled = value]

set_news_enabled(value) ==
    /\ UNCHANGED <<chatagent, ollama_api_key, email, school, asset>>
    /\ chat_state' = [chat_state EXCEPT !.news_enabled = value]

\* faulty variant: a failing call leaves the handler after the user's
\* message was appended
send_message_unanswered(answer) ==
    /\ UNCHANGED <<chatagent, ollama_api_key, email, school, asset>>
    /\ Len(chat_state.messages) < 1 + 2 * MaxExchanges
    /\ LET user_msg == Strip(chat_state.user_input)
       IN  IF user_msg = <<>>
           THEN UNCHANGED chat_state
           ELSE IF answer.fails_at >= 0
           THEN chat_state' = [chat_state EXCEPT
                  !.messages = Append(@, [role |-> "user",
                                          content |-> user_msg]),
                  !.request = ActiveList(chat_state)]
           ELSE LET assistant_reply == call_ollama(answer)
                IN  chat_state' = [chat_state EXCEPT
                      !.messages = @ \o
                          <<[role |-> "user", content |-> user_msg],
                            [role |-> "assistant",
                             content |-> assistant_reply]>>,
                      !.citations = extract_citations(assistant_reply),
                      !.request = ActiveList(chat_state),
                      !.user_input = <<>>]

\* ChatState.send_message
send_message(answer) ==
    /\ UNCHANGED <<chatagent, ollama_api_key, email, school, asset>>
    /\ Len(chat_state.messages) < 1 + 2 * MaxExchanges
    /\ LET user_msg == Strip(chat_state.user_input)
       IN  IF user_msg = <<>>
           THEN UNCHANGED chat_state
           ELSE LET assistant_reply == call_ollama(answer)
                IN  chat_state' = [chat_state EXCEPT
                      !.messages = @ \o
                          <<[role |-> "user", content |-> user_msg],
                            [role |-> "assistant",
                             content |-> assistant_reply]>>,
                      !.citations = extract_citations(assistant_reply),
                      !.request = ActiveList(chat_state),
                      !.user_input = <<>>]

InitReflex ==
    /\ ChatAgentUnused
    /\ ollama_api_key \in BOOLEAN
    /\ email = EmailStart
    /\ school = SchoolStart
    /\ asset = AssetStart
    /\ chat_state = ChatStateStart

NextReflex ==
    \/ \E v \in UserInputs : set_user_input(v)
    \/ \E b \in BOOLEAN : set_wiki_enabled(b)
    \/ \E b \in BOOLEAN : set_docs_enabled(b)
    \/ \E b \in BOOLEAN : set_news_enabled(b)
    \/ \E a \in ChatAnswers : send_message(a)

SpecReflex == InitReflex /\ [][NextReflex]_vars

\* ------------------------------------- every front-end without the credential
\* one answer that arrives whole and one that breaks
CredentialAnswers ==
    { [fragments |-> <<TextChunk(<<"h","i">>), EmptyChunk>>,
       fails_at |-> -1, msg |-> <<>>],
      [fragments |-> <<TextChunk(<<"h","i">>)>>,
       fails_at |-> 0, msg |-> Msg_401] }

InitCredential ==
    /\ ChatAgentUnused
    /\ ollama_api_key \in BOOLEAN
    /\ email = EmailStart
    /\ school = SchoolStart
    /\ asset = AssetStart
    /\ chat_state = ChatStateStart

NextCredential ==
    \/ \E s \in SessionIds : init_settings(s)
    \/ \E t \in TaskIds, s \in SessionIds : main_start(t, s, <<"h","i">>)
    \/ \E t \in TaskIds : PlainChat(t)
    \/ \E t \in TaskIds : Return(t)
    \/ \E b \in CustomerBodies, a \in CredentialAnswers : EmailGenerate(b, a)
    \/ \E i \in StudentIds, a \in CredentialAnswers : SchoolGenerate(i, a)
    \/ SchoolChunk
    \/ SchoolStreamFails
    \/ SchoolStreamEnds
    \/ \E a \in CredentialAnswers : AssetGenerate(a)

SpecCredential == InitCredential /\ [][NextCredential]_vars

\* -------------------------------------------- the two histories side by side
\* the answers that arrive whole, as dicts
DictAnswers ==
    {a \in Answers :
        /\ a.fails_at = -1
        /\ \A k \in 1..Len(a.fragments) : a.fragments[k].is_dict}

InitHistories ==
    /\ ChatAgentUnused
    /\ ollama_api_key = TRUE
    /\ email = EmailStart
    /\ school = SchoolStart
    /\ asset = AssetStart
    /\ chat_state = ChatStateStart

NextHistories ==
    \/ \E a \in DictAnswers : EmailGenerate(<<"h","i">>, a)
    \/ \E b \in PastedBodies, x \in EditedTexts :
          EmailSave(<<"A","l">>, <<"a","@","b">>, b, x)
    \/ \E idx \in 0..(MaxHistory - 1) : EmailDelete(idx)
    \/ \E a \in DictAnswers : SchoolGenerate(1, a)
    \/ SchoolChunk
    \/ SchoolStreamEnds
    \/ \E i \in StudentIds \ {0} : SchoolSave(i, <<"o","k">>)
    \/ \E idx \in 0..(MaxHistory - 1) : SchoolDelete(idx)

SpecHistories == InitHistories /\ [][NextHistories]_vars

\* ------------------------------------------------------------------ claims
Unsafe(code) ==
    \E i \in 1..Len(forbidden_patterns) : Contains(forbidden_patterns[i], code)

StepRan(t, step) == \E k \in 1..Len(task[t].log) : task[t].log[k].step = step

StepFailed(t) == \E k \in 1..Len(task[t].log) : ~task[t].log[k].ok

Finished(t) == task[t].pc \in {"done", "raised"}

\* C1: generated code is validated before it is executed: code that holds a
\* denylisted substring never reaches exec (the call fails with the unsafe
\* code error), and exec is reached only for code that passed the whole scan.
C1_ValidatedBeforeExec ==
    \A t \in DOMAIN task :
        /\ task[t].execd > 0 => ~Unsafe(task[t].code)
        /\ (StepRan(t, "execute") /\ Unsafe(task[t].code)) =>
              /\ task[t].execd = 0
              /\ task[t].err.msg = "Unsafe code detected"
              /\ Contains(task[t].err.pattern, task[t].code)
              /\ task[t].pc \in {"except", "done"}

C1_Witness ==
    \E t \in DOMAIN task :
        /\ StepRan(t, "execute")
        /\ task[t].code = St_result1 \o <<"\n">> \o St_open
        /\ task[t].err.msg = "Unsafe code detected"
        /\ task[t].execd = 0

PipelineOrder == <<"summarize", "generate", "execute", "explain", "respond">>

\* C2: in Data-Analysis Mode the steps run in the order summarize, generate,
\* validate+execute, explain, respond, each one only after every earlier one
\* has returned its output.
C2_StrictOrder ==
    \A t \in DOMAIN task :
        task[t].mode = "data" =>
            /\ Len(task[t].log) <= Len(PipelineOrder)
            /\ \A k \in 1..Len(task[t].log) :
                  /\ task[t].log[k].step = PipelineOrder[k]
                  /\ k < Len(task[t].log) => task[t].log[k].ok
            /\ StepRan(t, "generate") => task[t].df_summary # <<>>
            /\ StepRan(t, "explain") => task[t].result # Unbound
            /\ StepRan(t, "respond") => task[t].chat_calls = 2

C2_Witness ==
    \E t \in DOMAIN task :
        /\ task[t].mode = "data"
        /\ Len(task[t].log) = 5
        /\ task[t].pc = "done"

\* C3 (as claimed): a failed step is the last step of its message, and the
\* handler goes on to send an error response.
C3_ShortCircuitToError ==
    \A t \in DOMAIN task :
        (task[t].mode = "data" /\ Finished(t) /\ StepFailed(t)) =>
            /\ ~task[t].log[Len(task[t].log)].ok
            /\ ~StepRan(t, "respond")
            /\ Len(task[t].outbox) = 1
            /\ task[t].outbox[1].kind = "data analysis error"

\* C4 (as claimed): every message handled in Data-Analysis Mode ends with the
\* handler returning normally after exactly one chat message.
C4_OneMessagePerQuestion ==
    \A t \in DOMAIN task :
        (task[t].mode = "data" /\ Finished(t)) =>
            /\ task[t].pc = "done"
            /\ Len(task[t].outbox) = 1

\* C5 (as claimed): a message is handled in Data-Analysis Mode exactly when
\* the store is non-empty, and in Plain-Chat Mode whenever it is empty.
C5_ModeIffStoreNonEmpty ==
    \A t \in DOMAIN task :
        task[t].handler = "main" =>
            /\ task[t].mode = "data" <=> task[t].dfs0 # EmptyDict
            /\ task[t].dfs0 = EmptyDict => task[t].mode = "plain"

\* C5 (amended): a message other than the /upload command is handled in
\* Data-Analysis Mode exactly when the store is non-empty and in Plain-Chat
\* Mode otherwise; the /upload command is handled as an upload whatever the
\* store holds; with an empty store neither the code generator nor the
\* guarded executor is called.
C5_ModeSelection ==
    \A t \in DOMAIN task :
        task[t].handler = "main" =>
            /\ Lower(task[t].question) # <<"/","u","p","l","o","a","d">> =>
                  /\ task[t].mode = "data" <=> task[t].dfs0 # EmptyDict
                  /\ task[t].mode = "plain" <=> task[t].dfs0 = EmptyDict
            /\ Lower(task[t].question) = <<"/","u","p","l","o","a","d">> =>
                  task[t].mode = "upload"
            /\ task[t].mode # "data" =>
                  /\ ~StepRan(t, "generate")
                  /\ ~StepRan(t, "execute")
                  /\ task[t].execd = 0
            /\ task[t].mode = "data" /\ Finished(t) => StepRan(t, "generate")

C5_Witness ==
    \E t \in DOMAIN task :
        /\ task[t].handler = "main"
        /\ task[t].mode = "plain"
        /\ task[t].dfs0 = EmptyDict
        /\ task[t].pc = "done"
        /\ task[t].chat_calls = 1

\* C6: nothing is retried: for one message each step is invoked at most
\* once, the generated code is executed at most once, and the completion
\* service is called at most twice, whatever fails.
C6_NoRetry ==
    \A t \in DOMAIN task :
        /\ \A j, k \in 1..Len(task[t].log) :
              task[t].log[j].step = task[t].log[k].step => j = k
        /\ task[t].execd <= 1
        /\ task[t].chat_calls <= 2
        /\ task[t].chat_calls =
              Cardinality({k \in 1..Len(task[t].log) :
                              task[t].log[k].step \in {"generate", "explain"}})
              + (IF task[t].mode = "plain" /\ Finished(t) THEN 1 ELSE 0)

C6_Witness ==
    \E t \in DOMAIN task :
        /\ task[t].pc = "done"
        /\ task[t].chat_calls = 2
        /\ StepFailed(t)
        /\ task[t].execd = 1

\* C7 (as claimed): no run of the Data-Analysis pipeline changes the store.
C7_PipelineLeavesStore ==
    \A t \in DOMAIN task :
        task[t].mode = "data" => dataframes[task[t].session] = task[t].dfs0

\* C8 (as claimed): after a message or an upload that ended in an error the
\* store and the toggles are what they were when it began.
C8_FailureLeavesState ==
    \A t \in DOMAIN task :
        (Finished(t) /\ task[t].err.type # "none") =>
            /\ dataframes[task[t].session] = task[t].dfs0
            /\ active_sources[task[t].session] = task[t].src0

\* the files an upload handler has taken through its loop: all of them for
\* the /upload branch, those read so far for on_file_upload
Processed(t) ==
    IF task[t].handler = "main" THEN task[t].files
    ELSE SubSeq(task[t].files, 1,
                IF task[t].idx <= Len(task[t].files) /\ Finished(t)
                THEN task[t].idx ELSE task[t].idx - 1)

\* names with an extension the handler has no reader for
UnsupportedFor(handler) ==
    IF handler = "main" THEN {N_z_zip} ELSE {N_z_zip, N_n_txt}

\* the file was parsed into a table
Parsed(t, file) ==
    /\ file.name \notin UnsupportedFor("on_file_upload")
    /\ ReadTable(file.content) # <<>>

Stored(t) ==
    IF task[t].pc = "ask_file" /\ task'[t].pc = "done" THEN task'[t].files
    ELSE IF task[t].pc = "read" /\ task'[t].idx = task[t].idx + 1
    THEN <<task[t].files[task[t].idx]>>
    ELSE <<>>

\* C10: a name maps to one table at a time: an upload leaves under every
\* name it parsed the table of the last file of that name, keeps one entry
\* per name, and leaves every other name with the table it had.
C10_UploadReplaces ==
    [][ \A t \in DOMAIN task :
          LET s == task'[t].session
              put == Stored(t)
              last(n) == {i \in 1..Len(put) :
                            /\ put[i].name = n
                            /\ Parsed(t, put[i])
                            /\ \A j \in (i+1)..Len(put) :
                                  ~(put[j].name = n /\ Parsed(t, put[j]))}
          IN  (/\ task[t].pc \in {"ask_file", "read"}
               /\ (task'[t].pc # task[t].pc \/ task'[t].idx # task[t].idx)) =>
                /\ IsDict(dataframes'[s])
                /\ \A n \in FileNames \cup DictKeys(dataframes[s]) :
                      IF last(n) = {}
                      THEN Lookup(dataframes'[s], n) = Lookup(dataframes[s], n)
                      ELSE \A i \in last(n) :
                              Lookup(dataframes'[s], n)
                                 = ReadTable(put[i].content)
    ]_vars

C10_Witness ==
    \E t \in DOMAIN task :
        /\ task[t].mode = "upload"
        /\ task[t].pc = "done"
        /\ task[t].dfs0 = <<<<N_a_csv, T_sales>>, <<N_b_xls, T_sales>>>>
        /\ task[t].files = <<[name |-> N_a_csv, content |-> 2]>>
        /\ dataframes[task[t].session] =
              <<<<N_a_csv, T_stock>>, <<N_b_xls, T_sales>>>>

\* the denylist as the specification lists it, in its scan order
ClaimedPatterns == <<
    <<"i","m","p","o","r","t">>,
    <<"o","p","e","n","(">>,
    <<"e","x","e","c","(">>,
    <<"e","v","a","l","(">>,
    <<"_","_">>,
    <<"o","s",".">>,
    <<"s","y","s",".">>,
    <<"s","u","b","p","r","o","c","e","s","s">>,
    <<"s","o","c","k","e","t">> >>

LiterallyUnsafe(code) ==
    \E i \in 1..Len(ClaimedPatterns) : Contains(ClaimedPatterns[i], code)

\* C11: the denylist check is a literal, case-sensitive substring test: the
\* code is rejected with the unsafe code error exactly when it contains one
\* of the nine patterns as written; `import pandas` is rejected naming
\* "import"; code with none of them passes validation and reaches exec.
C11_DenylistLiteral ==
    \A t \in DOMAIN task :
        StepRan(t, "execute") =>
            /\ task[t].err.msg = "Unsafe code detected"
                  <=> LiterallyUnsafe(task[t].code)
            /\ LiterallyUnsafe(task[t].code) <=> task[t].execd = 0
            /\ task[t].code = St_import_pandas =>
                  task[t].err.pattern = <<"i","m","p","o","r","t">>
            /\ task[t].code = St_kudos =>
                  task[t].err.pattern = <<"o","s",".">>
            /\ task[t].code = St_Import =>
                  /\ task[t].execd = 1
                  /\ task[t].err.type = "SyntaxError"

C11_Witness ==
    \E t \in DOMAIN task :
        /\ StepRan(t, "execute")
        /\ task[t].code = St_import_pandas
        /\ task[t].err.msg = "Unsafe code detected"
        /\ task[t].err.pattern = <<"i","m","p","o","r","t">>

\* C12: when several patterns occur in the code, the one reported is the
\* first in the scan order of the denylist, wherever they stand in the text.
C12_FirstInScanOrder ==
    \A t \in DOMAIN task :
        task[t].err.msg = "Unsafe code detected" =>
            \E i \in 1..Len(ClaimedPatterns) :
                /\ task[t].err.pattern = ClaimedPatterns[i]
                /\ Contains(ClaimedPatterns[i], task[t].code)
                /\ \A j \in 1..(i - 1) :
                      ~Contains(ClaimedPatterns[j], task[t].code)

C12_Witness ==
    \E t \in DOMAIN task :
        /\ task[t].code = St_open \o <<"\n">> \o St_import
        /\ task[t].err.msg = "Unsafe code detected"
        /\ task[t].err.pattern = <<"i","m","p","o","r","t">>

\* programs that pass the denylist, raise nothing and bind no result
NoResultCodes ==
    {<<>>, St_x1, St_clear, St_x1 \o <<"\n">> \o St_clear}

\* C13: code that passes the denylist and runs without raising but binds no
\* `result` makes execute_code_safely fail with the missing result error:
\* no value is returned and the explainer is not invoked.
C13_MissingResult ==
    \A t \in DOMAIN task :
        (StepRan(t, "execute") /\ task[t].code \in NoResultCodes) =>
            /\ task[t].execd = 1
            /\ task[t].err.type = "ValueError"
            /\ task[t].err.msg = "No result variable produced."
            /\ task[t].result = Unbound
            /\ ~StepRan(t, "explain")
            /\ task[t].prompt = <<>>
            /\ task[t].pc \in {"except", "done"}
            /\ task[t].pc = "done" =>
                  task[t].outbox = <<[kind |-> "data analysis error",
                                      lines |-> <<task[t].err>>]>>

C13_Witness ==
    \E t \in DOMAIN task :
        /\ task[t].code = St_x1
        /\ task[t].pc = "done"
        /\ task[t].err.msg = "No result variable produced."

\* the sum of the amount column of the sample tables
AmountTotal(df) ==
    CASE df = T_sales -> <<30>>
      [] df = T_stock -> <<5>>
      [] df = T_big   -> <<21>>
      [] OTHER        -> <<>>

\* C14: code with no denylisted substring that binds `result` runs and
\* execute_code_safely returns the value bound to `result` when the code
\* ends, which is the value the explainer is given; the sum of the amount
\* column 10, 20 of a.csv is 30.
C14_ReturnsBoundValue ==
    \A t \in DOMAIN task :
        StepRan(t, "execute") =>
            LET code == task[t].code
                a == Lookup(task[t].dfs0, N_a_csv)
                total == IF a = <<>> THEN <<>> ELSE AmountTotal(a[1])
            IN  /\ code = St_result1 => task[t].result = <<1>>
                /\ code = St_sum \o <<"\n">> \o St_result1 /\ total # <<>> =>
                      task[t].result = <<1>>
                /\ (code \in {St_sum, St_result1 \o <<"\n">> \o St_sum}
                      /\ total # <<>>) =>
                      /\ task[t].result = total
                      /\ \E k \in 1..Len(task[t].log) :
                            task[t].log[k] = [step |-> "execute", ok |-> TRUE]
                /\ code = St_len => task[t].result = <<Len(task[t].dfs0)>>
                /\ StepRan(t, "explain") =>
                      /\ task[t].result # Unbound
                      /\ task[t].prompt = <<[question |-> task[t].question,
                                             result |-> task[t].result]>>

C14_Witness ==
    \E t \in DOMAIN task :
        /\ task[t].code = St_sum
        /\ task[t].dfs0 = <<<<N_a_csv, T_sales>>>>
        /\ task[t].result = <<30>>
        /\ StepRan(t, "explain")
        /\ task[t].prompt[1].result = <<30>>

\* C15 (as claimed): the executed code sees pd and dataframes and no other
\* binding.
C15_OnlyPdAndDataframes ==
    \A t \in DOMAIN task : task[t].reached = {}
\* the sample file names by the extension class the specification gives them
ClaimedTabular == {N_a_csv, N_b_xls}

ClaimedDocument == {N_n_txt}

\* C16: tabular and document uploads are never conflated: only names with a
\* tabular extension are keys of the dataframes store, and they map to
\* tables; only names with a document extension are keys of the document
\* store, and they map to text; no name is in both stores.
C16_BoundariesApart ==
    \A s \in DOMAIN dataframes :
        /\ \A n \in DictKeys(dataframes[s]) :
              /\ n \in ClaimedTabular
              /\ \E f \in Files :
                    /\ f.name = n
                    /\ DictGet(dataframes[s], n) \in
                          {T_sales, T_stock} \cap
                          {ReadTable(f.content)[i] :
                               i \in 1..Len(ReadTable(f.content))}
        /\ \A n \in DictKeys(uploaded_documents[s]) :
              /\ n \in ClaimedDocument
              /\ DictGet(uploaded_documents[s], n) \in {"text one", "text two"}
        /\ DictKeys(dataframes[s]) \cap DictKeys(uploaded_documents[s]) = {}

C16_Witness ==
    \E t \in DOMAIN task :
        /\ task[t].handler = "main"
        /\ task[t].pc = "done"
        /\ task[t].files = <<[name |-> N_a_csv, content |-> 1],
                             [name |-> N_n_txt, content |-> 1]>>
        /\ DictKeys(dataframes[task[t].session]) = {N_a_csv}
        /\ DictKeys(uploaded_documents[task[t].session]) = {N_n_txt}
\* C19: the summary of an empty store is empty; the summary of a non-empty
\* store has one part per table, in store order, with the table's name, its
\* shape, its whole column list in order, and a preview that is the first
\* rows of the table, five at most.
C19_SummaryContents ==
    \A t \in DOMAIN task :
        StepRan(t, "summarize") =>
            LET d == task[t].dfs0
                s == task[t].df_summary
            IN  /\ d = <<>> => s = <<>>
                /\ Len(s) = Len(d)
                /\ \A i \in 1..Len(d) :
                      LET df == d[i][2]
                          k == Len(s[i].preview)
                      IN  /\ s[i].name = d[i][1]
                          /\ s[i].shape = <<Len(df.rows), Len(df.columns)>>
                          /\ s[i].columns = df.columns
                          /\ k <= 5
                          /\ k <= Len(df.rows)
                          /\ k = 5 \/ k = Len(df.rows)
                          /\ \A j \in 1..k : s[i].preview[j] = df.rows[j]

C19_Witness ==
    \E t \in DOMAIN task :
        /\ StepRan(t, "summarize")
        /\ task[t].dfs0 = <<<<N_b_xls, T_big>>, <<N_a_csv, T_empty>>>>
        /\ task[t].df_summary[1].name = N_b_xls
        /\ task[t].df_summary[1].shape = <<6, 3>>
        /\ Len(task[t].df_summary[1].preview) = 5
        /\ task[t].df_summary[2].columns = <<"region">>

ParsedBy(t, n) ==
    {ReadTable(Processed(t)[i].content)[1] :
        i \in {j \in 1..Len(Processed(t)) :
                  /\ Processed(t)[j].name = n
                  /\ Parsed(t, Processed(t)[j])}}

\* C18: no upload is lost when two uploads of one session overlap at their
\* awaits: once both are over, every name either of them parsed is in the
\* store with a table one of them parsed for it.
C18_NoLostUpload ==
    \A t \in DOMAIN task : \A u \in DOMAIN task \ {t} :
        (/\ Finished(t) /\ Finished(u)
         /\ task[t].mode = "upload" /\ task[u].mode = "upload"
         /\ task[t].session = task[u].session
         /\ task[t].overlapped) =>
            \A n \in FileNames :
                LET got == ParsedBy(t, n) \cup ParsedBy(u, n)
                    now == Lookup(dataframes[task[t].session], n)
                IN  got # {} => (now # <<>> /\ now[1] \in got)

C18_Witness ==
    \E t \in DOMAIN task : \E u \in DOMAIN task \ {t} :
        /\ task[t].pc = "done" /\ task[u].pc = "done"
        /\ task[t].handler = "main" /\ task[u].handler = "on_file_upload"
        /\ task[t].overlapped
        /\ task[t].files = <<[name |-> N_b_xls, content |-> 1]>>
        /\ task[u].files = <<[name |-> N_a_csv, content |-> 1]>>
        /\ task[t].dfs0 = EmptyDict
        /\ DictKeys(dataframes[task[t].session]) = {N_a_csv, N_b_xls}
Outcome(t) ==
    [ok |-> \E k \in 1..Len(task[t].log) :
               task[t].log[k] = [step |-> "execute", ok |-> TRUE],
     result |-> task[t].result]

\* C21 (as claimed): a message is handled from the question, the store and
\* the session context alone: two messages of a session with the same
\* question, store, toggles and generated code have the same outcome,
\* whatever was handled before them.
C21_FreshPipeline ==
    \A t \in DOMAIN task : \A u \in DOMAIN task :
        (/\ StepRan(t, "execute") /\ StepRan(u, "execute")
         /\ task[t].session = task[u].session
         /\ task[t].question = task[u].question
         /\ task[t].dfs0 = task[u].dfs0
         /\ task[t].src0 = task[u].src0
         /\ task[t].code = task[u].code) =>
            Outcome(t) = Outcome(u)
\* C22 (as claimed): every message handled in Plain-Chat Mode makes one
\* call of the completion service, with the context built from the sources
\* and the question, and is answered with one reply; no code is generated
\* or executed.
C22_PlainChatOneReply ==
    \A t \in DOMAIN task :
        (task[t].mode = "plain" /\ Finished(t)) =>
            /\ task[t].chat_calls = 1
            /\ Len(task[t].outbox) = 1
            /\ task[t].outbox[1].kind = "reply"
            /\ task[t].log = <<>>
            /\ task[t].execd = 0
            /\ task[t].code = <<>>
\* the text the static sources hold
SourceTexts == {"wikipedia text", "news text"}

\* C23: the toggles are used in Plain-Chat Mode only, and honoured there: the
\* context of a plain-chat request holds the text of a static source exactly
\* when the toggle of that source is on in the settings last stored (and the
\* source has text); a message handled in Data-Analysis Mode builds no
\* context, and its requests carry the question, the summary and the result.
C23_TogglesHonoured ==
    [][ \A t \in DOMAIN task :
          /\ (task[t].pc = "plain" /\ task'[t].pc # "plain") =>
                LET on == active_sources[task[t].session]
                    ctx == task'[t].context
                IN  /\ \A n \in {"Wikipedia", "News Articles"} :
                          on[n] <=> \E i \in 1..Len(ctx) : ctx[i].name = <<n>>
                    /\ \A i \in 1..Len(ctx) :
                          /\ ctx[i].name # <<"Company Docs">>
                          /\ ctx[i].text \in SourceTexts =>
                                /\ Len(ctx[i].name) = 1
                                /\ on[ctx[i].name[1]]
          /\ task'[t].mode = "data" =>
                /\ task'[t].context = <<>>
                /\ task'[t].prompt # <<>> =>
                      task'[t].prompt[1] = [question |-> task'[t].question,
                                            result |-> task'[t].result]
      ]_vars

C23_Witness ==
    \E t \in DOMAIN task :
        /\ task[t].mode = "plain"
        /\ task[t].pc = "done"
        /\ active_sources[task[t].session] = NoSources
        /\ uploaded_documents[task[t].session] # <<>>
        /\ Len(task[t].context) = 1
        /\ task[t].context[1].name = N_n_txt

\* C26: in the email responder, with the credential configured and the
\* service answering whole, generate_response returns the text the service
\* suggested, trimmed, and not an error string.
C26_ReturnsSuggestion ==
    (/\ email.ran = "generate"
     /\ email.answer # <<>>
     /\ ollama_api_key
     /\ email.answer[1].fails_at = -1)
    => /\ email.current_response = Strip(WholeText(email.answer[1].fragments))
       /\ ~Contains(<<"E","r","r","o","r">>, email.current_response)

\* C28: Send Response appends exactly one entry to the history and clears
\* the current response when the address, the subject and the body are all
\* non-empty, and leaves both unchanged otherwise.
C28_SendAppendsAndClears ==
    [][\A n \in CustomerNames, e \in CustomerEmails, b \in PastedBodies,
          x \in EditedTexts :
          EmailSend(n, e, b, x) =>
            IF e # <<>> /\ x # <<>>
            THEN /\ email'.response_history =
                      Append(email.response_history, HistoryEntry(n, e, b, x))
                 /\ email'.current_response = <<>>
            ELSE /\ email'.response_history = email.response_history
                 /\ email'.current_response = email.current_response]_vars

\* a send went through: the entry is the last of the history
C28_Witness ==
    /\ email.ran = "send"
    /\ email.current_response = <<>>
    /\ Len(email.response_history) = 2
    /\ email.response_history[2].generated_response = <<"o","k">>

\* C25: in the school portal the stored message is the concatenation, in
\* order of arrival, of the content of every fragment of the reply, trimmed;
\* it is written only once the reply is exhausted; and when the reply
\* breaks part-way the error text is stored and no partial text.
C25_StoredMessage ==
    /\ [](( /\ school.ran = "generate"
            /\ school.pc = "idle"
            /\ school.stream # <<>> )
          => IF school.stream[1].fails_at = -1
             THEN school.current_message =
                      Strip(WholeText(school.stream[1].fragments))
             ELSE school.current_message =
                      ExceptText(Err_message, school.stream[1].msg))
    /\ [][school.pc = "streaming" /\ school'.pc = "streaming"
            => school'.current_message = school.current_message]_vars

\* `after` is `before` without the entry numbered idx, the others in order
Removed(before, after, idx) ==
    /\ Len(after) = Len(before) - 1
    /\ \A k \in 1..Len(after) :
          after[k] = IF k <= idx THEN before[k] ELSE before[k + 1]

\* C27: Delete on an entry of the response history of the email responder
\* or of the message history of the school portal removes exactly that
\* entry; the other entries keep their content and their order.
C27_DeleteRemovesThatEntry ==
    [][/\ \A idx \in 0..(MaxHistory - 1) :
            EmailDelete(idx) =>
                Removed(email.response_history, email'.response_history, idx)
       /\ \A idx \in 0..(MaxHistory - 1) :
            SchoolDelete(idx) =>
                Removed(school.message_history, school'.message_history, idx)
      ]_vars

\* the first of two different entries was deleted in both histories
C27_Witness ==
    /\ email.ran = "delete"
    /\ Len(email.response_history) = 1
    /\ email.response_history[1].generated_response = <<"o","k">>
    /\ school.ran = "delete"
    /\ Len(school.message_history) = 1
    /\ school.message_history[1].student_id = 2

\* C24: while the credential is not configured, no front-end calls the
\* completion service, and an operation that needs it leaves an error about
\* the missing credential for the user: the chat agent, the email
\* responder, the asset report and the school portal alike.
C24_NoCallWithoutCredential ==
    ~ollama_api_key =>
        /\ ~email.called
        /\ ~school.called
        /\ ~asset.called
        /\ \A t \in TaskIds : task[t].chat_calls = 0
        /\ (email.ran = "generate" /\ email.shown = <<>>)
              => email.current_response = Err_no_key
        /\ (school.ran = "generate" /\ school.shown = <<>>)
              => school.current_message = Err_no_key
        /\ asset.ran = "generate"
              => /\ asset.shown = <<"OLLAMA_API_KEY not set">>
                 /\ asset.current_report = Err_credentials

\* the conversation begins with the greeting, then user and assistant take
\* turns, and the last message is the assistant's
WellFormed(messages) ==
    /\ Len(messages) >= 1
    /\ messages[1] = [role |-> "assistant", content |-> Greeting]
    /\ \A k \in 1..Len(messages) :
          messages[k].role = IF k % 2 = 1 THEN "assistant" ELSE "user"
    /\ messages[Len(messages)].role = "assistant"

\* C29: send_message with a blank input changes no state; otherwise it
\* appends the user's message, trimmed, and then one assistant message, and
\* clears the input, also when the call of the service fails; the messages
\* always begin with the greeting, alternate and end with the assistant.
C29_SendMessage ==
    /\ []WellFormed(chat_state.messages)
    /\ [][\A a \in ChatAnswers :
            send_message(a) =>
              IF Strip(chat_state.user_input) = <<>>
              THEN chat_state' = chat_state
              ELSE /\ Len(chat_state'.messages) = Len(chat_state.messages) + 2
                   /\ SubSeq(chat_state'.messages, 1, Len(chat_state.messages))
                        = chat_state.messages
                   /\ chat_state'.messages[Len(chat_state.messages) + 1]
                        = [role |-> "user",
                           content |-> Strip(chat_state.user_input)]
                   /\ chat_state'.messages[Len(chat_state.messages) + 2].role
                        = "assistant"
                   /\ chat_state'.user_input = <<>>]_vars

\* an exchange whose call failed, followed by one that was answered
C29_Witness ==
    /\ Len(chat_state.messages) = 5
    /\ chat_state.messages[3].content = Err_reply \o Msg_timeout
    /\ chat_state.messages[5].content # Err_reply \o Msg_timeout
    /\ chat_state.citations = <<<<"W","i","k","i","p","e","d","i","a">>,
                                <<"N","e","w","s">>>>
    /\ chat_state.user_input = <<>>

====
